---- MODULE Spec2Model ----
(***************************************************************************)
(* Model of the virtual-coach core: the skill-to-keyframe converter        *)
(* (src/utils/skillConverter.ts), the difficulty scoring engine            *)
(* (src/utils/skillUtils.ts) and the routine validator and generator       *)
(* (src/utils/routineValidation.ts).                                       *)
(*                                                                         *)
(* Numbers are exact rationals <<numerator, denominator>> with a positive  *)
(* denominator in lowest terms.  A zero denominator stands for a           *)
(* non-finite IEEE value (NaN, or the Infinity a division by zero gives),  *)
(* which every arithmetic operator propagates and every comparison         *)
(* rejects, as JavaScript's number type does.  Rounding error of the       *)
(* binary floating point format is not modelled.                           *)
(***************************************************************************)
EXTENDS Integers, Sequences, FiniteSets, TLC

VARIABLES
    \* makeSkillFrames
    definition,      \* the SkillDefinition argument
    incomingTwist,   \* the incomingTwist argument
    renderProps,     \* the renderProps argument, or NoProps
    skill,           \* the returned Skill, or NoSkill
    convPc,          \* "idle" | "ready" | "done"
    \* calculateDifficultyScore
    scorePool,       \* the skills the scoring functions are called on
    minDifficulty,   \* CONSTANTS.SCORING.MIN_DIFFICULTY
    difficultyCache, \* the module-level Map of skillUtils.ts, cache key -> score
    scoreArg,        \* index in scorePool of the last scored skill, 0 before any call
    scoreResult,     \* value the last calculateDifficultyScore call returned
    cacheAccess,     \* what the last call did with the cache: "none" | "hit" | "miss"
    firstCall,       \* <<arguments and result of the first makeSkillFrames call>>, or <<>>
    conversions,     \* number of makeSkillFrames calls made in between scoring calls
    \* isRoutineValid, getRoutineValidationErrors
    routine,         \* the routine argument
    validResult,     \* value isRoutineValid returned
    errorsResult,    \* value getRoutineValidationErrors returned
    validationPc,    \* "idle" | "ready" | "validated" | "done"
    \* generateValidRandomRoutine
    skillDefinitions, \* the pool argument
    maxSkills,        \* the maxSkills argument
    genRoutine,       \* the local routine
    availableSkills,  \* the local availableSkills
    genPc,            \* "idle" | "start" | "loop" | "done"
    \* rule.validator
    rule,             \* the rule whose validator is called
    ruleRoutine,      \* the routine argument of the validator
    passed,           \* value the validator returned
    tripleThreshold,  \* CONSTANTS.FLIP_THRESHOLDS.TRIPLE_THRESHOLD_MENS
    rulePc,           \* "idle" | "ready" | "done"
    \* generateRequirementCompliantRoutine
    requirement,        \* the requirement argument
    maxAttempts,        \* the maxAttempts argument
    attempt,            \* the loop counter of the attempt loop
    relaxedMode,        \* the relaxedMode argument of generateConstrainedRandomRoutine
    constrainedRoutine, \* the local routine of generateConstrainedRandomRoutine
    usedCombinations,   \* the local usedCombinations
    routineTemplate,    \* the local routineTemplate of generateSpecificRoutine
    fillIndex,          \* the index i of its fill loop
    reqResult,          \* the returned routine
    reqPc,              \* "idle" | "start" | "fill" | "tailCall" | "attempt" |
                        \* "constrainedStart" | "constrainedCall" |
                        \* "constrainedLoop" | "generated" | "done"
    \* useSkillDefinitions
    sources,              \* the sources argument
    served,               \* what the server answers to the fetch of each source
    settled,              \* the state of the promise of each source
    hookSkillDefinitions, \* the state skillDefinitions of the hook
    selectedPositions,    \* the state selectedPositions
    loading,              \* the state loading
    error,                \* the state error
    hookPc,               \* "idle" | "mounted" | "loading" | "done"
    \* normalizeTimestamps
    accumulated,          \* the timestamps argument
    normalized,           \* the returned array
    normPc,               \* "idle" | "ready" | "done"
    \* routineDifficultyScore
    scoredRoutine,        \* the routine argument
    womens,               \* the womens argument
    flipThresholds,       \* CONSTANTS.FLIP_THRESHOLDS
    routineScore,         \* the returned score
    totalPc,              \* "idle" | "ready" | "done"
    \* useSkillDefinitions rendered again with other sources
    nextSources,          \* the sources argument of the next render
    earlierSources,       \* the sources of the load started by the render before
    earlierSettled,       \* the state of the promise of each of its sources
    earlierPc,            \* "idle" | "loading" | "done"
    \* useRoutine.moveSkill
    stateRoutine,         \* the state routine of useRoutine
    fromIndex,            \* the fromIndex argument
    toIndex,              \* the toIndex argument
    routineBefore,        \* the state routine when moveSkill was called
    movePc,               \* "idle" | "ready" | "done"
    \* useSimulator.playRoutine and the playback of AthleteController
    playedRoutine,        \* the routine argument of playRoutine
    incomingTwists,       \* the cumulativeTwist passed to each makeSkillFrames call
    skills,               \* the state skills, the skills prop of AthleteController
    cumulativeTwistRef,   \* cumulativeTwistRef.current
    previousSkillIndexRef, \* previousSkillIndexRef.current
    transitions,          \* skill changes useFrame has seen since the restart
    playPc                \* "idle" | "ready" | "closed" | "playing"

convVars == <<definition, incomingTwist, renderProps, skill, convPc>>
scoreVars == <<scorePool, minDifficulty, difficultyCache, scoreArg, scoreResult,
               cacheAccess, firstCall, conversions>>
validationVars == <<routine, validResult, errorsResult, validationPc>>
genVars == <<skillDefinitions, maxSkills, genRoutine, availableSkills, genPc>>
ruleVars == <<rule, ruleRoutine, passed, tripleThreshold, rulePc>>
reqVars == <<requirement, maxAttempts, attempt, relaxedMode, constrainedRoutine,
             usedCombinations, routineTemplate, fillIndex, reqResult, reqPc>>
hookVars == <<sources, served, settled, hookSkillDefinitions, selectedPositions,
              loading, error, hookPc>>
normVars == <<accumulated, normalized, normPc>>
totalVars == <<scoredRoutine, womens, flipThresholds, routineScore, totalPc>>
raceVars == <<nextSources, earlierSources, earlierSettled, earlierPc>>
moveVars == <<stateRoutine, fromIndex, toIndex, routineBefore, movePc>>
playVars == <<playedRoutine, incomingTwists, skills, cumulativeTwistRef,
              previousSkillIndexRef, transitions, playPc>>
vars == <<convVars, scoreVars, validationVars, genVars, ruleVars, reqVars, hookVars, normVars, totalVars, raceVars, moveVars, playVars>>

----------------------------------------------------------------------------
(* Bounds of the model *)

MaxFlipQuarters == 9      \* flips range over 0, 1/4, ..., MaxFlipQuarters/4
MaxTwistSlots == 3        \* length of definition.twists ranges over 0..MaxTwistSlots
MaxScoreFlipQuarters == 17 \* flips of scored skills: 0, 1/4, ..., MaxScoreFlipQuarters/4
MaxCacheFlips == 2        \* flips of the skills that share the cache: 0..MaxCacheFlips
MaxRoutineLength == 3     \* length of validated routines
MaxPoolSize == 3          \* size of the generator's pool
MaxSkills == 3            \* the generator's maxSkills ranges over 0..MaxSkills
MaxConversions == 3       \* makeSkillFrames calls interleaved with scoring calls
MaxRuleCount == 2         \* counts and indices of rules range over 0..MaxRuleCount
MaxRuleRoutineLength == 3 \* length of the routines validators are called on
MaxReqPoolSize == 2       \* size of the pools of the requirement generator
MaxDirectionTwistSlots == 2 \* twist slots of the definitions of TwistSpec
MaxSources == 2           \* length of the sources argument ranges over 0..MaxSources
MaxBodySize == 2          \* skills in the array a source answers with
MaxAttempts == 2          \* the maxAttempts argument ranges over 0..MaxAttempts
MaxScoredLength == 3      \* length of the routines routineDifficultyScore is called on
MaxTripleThreshold == 2   \* the triple thresholds range over 0..MaxTripleThreshold
MaxPlayLength == 3        \* length of the routine playRoutine is called on
MaxTransitions == 4       \* skill changes of one playback, so that a routine of
                          \* MaxPlayLength skills wraps around to its first skill
MaxMoveLength == 3        \* length of the routine moveSkill is called on; the
                          \* indices range over -(MaxMoveLength + 1)..(MaxMoveLength + 1)
MaxZeroFrames == 3        \* frames of a timeline without duration range over 1..MaxZeroFrames

----------------------------------------------------------------------------
(* Rational arithmetic with IEEE non-finite propagation *)

Abs(n) == IF n < 0 THEN -n ELSE n

RECURSIVE GCD(_, _)
GCD(a, b) == IF b = 0 THEN a ELSE GCD(b, a % b)

NaN == <<0, 0>>

IsNaN(x) == x[2] = 0

Norm(n, d) ==
    IF d = 0 THEN NaN
    ELSE LET g == GCD(Abs(n), Abs(d))
             s == IF d < 0 THEN -1 ELSE 1
         IN  <<(s * n) \div g, (s * d) \div g>>

Rat(n, d) == Norm(n, d)
Zero == <<0, 1>>
One == <<1, 1>>

Add(x, y) == IF IsNaN(x) \/ IsNaN(y) THEN NaN
             ELSE Norm(x[1] * y[2] + y[1] * x[2], x[2] * y[2])
Neg(x) == IF IsNaN(x) THEN NaN ELSE <<-x[1], x[2]>>
Sub(x, y) == Add(x, Neg(y))
Mul(x, y) == IF IsNaN(x) \/ IsNaN(y) THEN NaN
             ELSE Norm(x[1] * y[1], x[2] * y[2])
Div(x, y) == IF IsNaN(x) \/ IsNaN(y) THEN NaN
             ELSE Norm(x[1] * y[2], x[2] * y[1])
RAbs(x) == IF IsNaN(x) THEN NaN ELSE <<Abs(x[1]), x[2]>>

Eq(x, y) == ~IsNaN(x) /\ ~IsNaN(y) /\ x = y
Lt(x, y) == ~IsNaN(x) /\ ~IsNaN(y) /\ x[1] * y[2] < y[1] * x[2]
Le(x, y) == ~IsNaN(x) /\ ~IsNaN(y) /\ x[1] * y[2] <= y[1] * x[2]
Gt(x, y) == Lt(y, x)
Ge(x, y) == Le(y, x)

\* Math.min: NaN if either argument is NaN
RMin(x, y) == IF IsNaN(x) \/ IsNaN(y) THEN NaN ELSE IF Lt(y, x) THEN y ELSE x
RMax(x, y) == IF IsNaN(x) \/ IsNaN(y) THEN NaN ELSE IF Lt(x, y) THEN y ELSE x

\* Math.floor of a finite rational, as an integer
Floor(x) == x[1] \div x[2]

\* Math.round: floor(x + 0.5), as an integer
Round(x) == Floor(Add(x, Rat(1, 2)))

RECURSIVE SumSeq(_)
SumSeq(s) == IF s = <<>> THEN Zero ELSE Add(s[1], SumSeq(Tail(s)))

----------------------------------------------------------------------------
(* models/SkillDefinition.ts *)

BedPosition == {"Standing", "Back", "Stomach", "Seated", "HandsAndKnees"}

Straight == "StraightArmsDown"
Position == {Straight, "Tuck", "Pike"}

----------------------------------------------------------------------------
(* utils/skillUtils.ts: rotation helpers *)

startingPositionRotations(p) ==
    CASE p = "Standing" -> Zero
      [] p = "Back" -> Rat(-1, 4)
      [] p = "Stomach" -> Rat(1, 4)
      [] p = "HandsAndKnees" -> Rat(1, 4)
      [] p = "Seated" -> Zero

\* Math.floor(cumulativeTwist * 2) % 2 !== 0 ; NaN % 2 is NaN, which is !== 0
OddHalfTwists(cumulativeTwist) ==
    IF IsNaN(cumulativeTwist) THEN TRUE
    ELSE Floor(Mul(cumulativeTwist, Rat(2, 1))) % 2 # 0

\* getRotationMultiplier without the test of the cumulative twist
getRotationMultiplier_IgnoresTwist(isBackSkill, cumulativeTwist) ==
    IF isBackSkill THEN -1 ELSE 1

getRotationMultiplier(isBackSkill, cumulativeTwist) ==
    (IF isBackSkill THEN -1 ELSE 1) * (IF OddHalfTwists(cumulativeTwist) THEN -1 ELSE 1)

IntRat(m) == <<m, 1>>

flipNumber(def) ==
    LET rotationMultiplier == getRotationMultiplier(def.isBackSkill, Zero)
        startRot == startingPositionRotations(def.startingPosition)
        adjustedFlips == Add(def.flips, Mul(startRot, IntRat(rotationMultiplier)))
    IN  Round(adjustedFlips)

----------------------------------------------------------------------------
(* utils/skillConverter.ts *)

relativePositionSpeeds(p) ==
    CASE p = "Tuck" -> Rat(5, 2)
      [] p = "Pike" -> Rat(2, 1)
      [] p = Straight -> One

bedPositionToJoints(p) ==
    CASE p = "Standing" -> "StraightArmsUp"
      [] p = "Back" -> "StraightArmsDown"
      [] p = "Stomach" -> "StraightArmsUp"
      [] p = "Seated" -> "Pike"
      [] p = "HandsAndKnees" -> "HandsAndKnees"

\* a twist slot that counts as a number (typeof twist === "number" && !isNaN)
ValidTwist(t) == IF IsNaN(t) THEN Zero ELSE t

totalTwists(def) ==
    SumSeq([i \in 1..Len(def.twists) |-> ValidTwist(def.twists[i])])

\* definition.twists[i] (0-based); an index past the end reads undefined,
\* which arithmetic turns into NaN
TwistSlot(def, i) == IF i + 1 <= Len(def.twists) THEN def.twists[i + 1] ELSE NaN

\* definition.twists[i] || 0
TwistOrZero(def, i) ==
    LET t == TwistSlot(def, i) IN IF IsNaN(t) THEN Zero ELSE t

\* startingRotation reading the twist the previous call left in a
\* module-level variable instead of its own argument
startingRotation_Remembered(def, cumulativeTwist) ==
    Mul(startingPositionRotations(def.startingPosition),
        IntRat(getRotationMultiplier(FALSE, incomingTwist)))

startingRotation(def, cumulativeTwist) ==
    Mul(startingPositionRotations(def.startingPosition),
        IntRat(getRotationMultiplier(FALSE, cumulativeTwist)))

getRenderPropertiesForSkill(def) ==
    LET stall1 == IF Le(def.flips, Rat(1, 2)) THEN Rat(1, 20) ELSE Rat(1, 10)
        kick1 == IF Le(def.flips, Rat(1, 2)) THEN Rat(1, 20) ELSE Rat(1, 2)
        stall2 == IF def.startingPosition = "Back" /\ ~def.isBackSkill
                  THEN Rat(1, 4) ELSE stall1
        stall3 == IF def.startingPosition = "Stomach" /\ def.isBackSkill
                  THEN Rat(1, 4) ELSE stall2
        kick2 == IF \/ (def.endingPosition = "Back" /\ ~def.isBackSkill)
                    \/ (def.endingPosition = "Stomach" /\ def.isBackSkill)
                 THEN Rat(1, 4) ELSE kick1
        stallTwist == TwistOrZero(def, 0)
        stall4 == IF Gt(stallTwist, Zero) THEN Rat(1, 5) ELSE stall3
    IN  [stallRotation |-> stall4, kickoutRotation |-> kick2,
         positionTransitionDuration |-> Rat(3, 20)]

\* normalizeTimestamps without the test of the duration
normalizeTimestamps_NoGuard(timestamps) ==
    LET start == timestamps[1]
        end == timestamps[Len(timestamps)]
        duration == Sub(end, start)
    IN  [i \in 1..Len(timestamps) |-> Div(Sub(timestamps[i], start), duration)]

normalizeTimestamps(timestamps) ==
    LET start == timestamps[1]
        end == timestamps[Len(timestamps)]
        duration == Sub(end, start)
    IN  IF Eq(duration, Zero)
        THEN [i \in 1..Len(timestamps) |-> Zero]
        ELSE [i \in 1..Len(timestamps) |-> Div(Sub(timestamps[i], start), duration)]

Frame(rotation, twist, joints) ==
    [rotation |-> rotation, twist |-> twist, joints |-> joints]

\* the timestamps of makeNonFlipFrames, in call order
NonFlipTimes(def) ==
    IF def.position # "StraightArmsDown"
    THEN <<Zero, Rat(2, 5), Rat(1, 2), Rat(3, 5), One>>
    ELSE <<Zero, Rat(1, 2), One>>

NonFlipJoints(def) ==
    LET startingJoints == bedPositionToJoints(def.startingPosition)
        endJoints == bedPositionToJoints(def.endingPosition)
    IN  IF def.position # "StraightArmsDown"
        THEN <<startingJoints, startingJoints, def.position, endJoints, endJoints>>
        ELSE <<startingJoints, def.position, endJoints>>

\* makeNonFlipFrames ramping the twist to the sum of the twists
makeNonFlipFrames_TotalTwist(def, incoming) ==
    LET rotationMultiplier == getRotationMultiplier(def.isBackSkill, incoming)
        initialRotation == startingRotation(def, incoming)
        times == NonFlipTimes(def)
        joints == NonFlipJoints(def)
        frameAt(i) ==
            LET rotationProgress == Mul(def.flips, times[i])
            IN  Frame(Add(Mul(rotationProgress, IntRat(rotationMultiplier)), initialRotation),
                      Mul(totalTwists(def), times[i]),
                      joints[i])
    IN  [positions |-> [i \in 1..Len(times) |-> frameAt(i)],
         timestamps |-> times]

makeNonFlipFrames(def, incoming) ==
    LET rotationMultiplier == getRotationMultiplier(def.isBackSkill, incoming)
        initialRotation == startingRotation(def, incoming)
        times == NonFlipTimes(def)
        joints == NonFlipJoints(def)
        frameAt(i) ==
            LET rotationProgress == Mul(def.flips, times[i])
            IN  Frame(Add(Mul(rotationProgress, IntRat(rotationMultiplier)), initialRotation),
                      Mul(TwistOrZero(def, 0), times[i]),
                      joints[i])
    IN  [positions |-> [i \in 1..Len(times) |-> frameAt(i)],
         timestamps |-> times]

\* the addFrameDelta closure of makeSkillFrames: s is the record of the
\* variables it updates (cumulativeRotation, cumulativeTwist, elapsedTime,
\* frames, timestamps)
addFrameDelta(s, rotationMultiplier, rotationDelta, twistDelta, position, rotationSpeed) ==
    LET cumulativeRotation == Add(s.cumulativeRotation, rotationDelta)
        cumulativeTwist == Add(s.cumulativeTwist, twistDelta)
        elapsedTime == Add(s.elapsedTime, Div(rotationDelta, rotationSpeed))
    IN  [cumulativeRotation |-> cumulativeRotation,
         cumulativeTwist |-> cumulativeTwist,
         elapsedTime |-> elapsedTime,
         frames |-> Append(s.frames,
                           Frame(Mul(cumulativeRotation, IntRat(rotationMultiplier)),
                                 cumulativeTwist, position)),
         timestamps |-> Append(s.timestamps, elapsedTime)]

transitionRotation == Rat(1, 6)

\* IsLastFlip comparing against the rotation reached so far instead of the
\* final rotation
IsLastFlip_WrongOperand(rotationDelta, cumulativeRotation, finalRotation) ==
    Ge(Add(rotationDelta, cumulativeRotation), cumulativeRotation)

\* isLastFlip = rotationDelta + cumulativeRotation >= finalRotation
IsLastFlip(rotationDelta, cumulativeRotation, finalRotation) ==
    Ge(Add(rotationDelta, cumulativeRotation), finalRotation)

\* the locals one iteration of the flip loop computes before it adds a frame
\* (skillConverter.ts lines 606-640)
FlipLocals(s, def, rp, finalRotation, flipNo) ==
    LET flipFinalRotation == RMin(IntRat(flipNo), RAbs(finalRotation))
        rotationDelta == Sub(flipFinalRotation, s.cumulativeRotation)
        isLastFlip == IsLastFlip(rotationDelta, s.cumulativeRotation, finalRotation)
        currentTwist == TwistOrZero(def, flipNo)
        position == IF Gt(currentTwist, Zero) /\ ~isLastFlip
                    THEN "StraightArmsDown" ELSE def.position
        rotationInPosition == IF isLastFlip
                              THEN Sub(rotationDelta, rp.kickoutRotation)
                              ELSE rotationDelta
    IN  [flipFinalRotation |-> flipFinalRotation,
         isLastFlip |-> isLastFlip,
         currentTwist |-> currentTwist,
         position |-> position,
         flipSpeed |-> relativePositionSpeeds(position),
         needsKickout |-> isLastFlip /\ position # "StraightArmsDown",
         rotationInPosition |-> rotationInPosition,
         thisTransitionRotation |-> RMin(transitionRotation,
                                         Div(rotationInPosition, Rat(2, 1)))]

\* if (position !== previousPosition) { ... }: the "Enter Position" frame;
\* previousPosition is assigned before previousSpeed is read, so
\* previousSpeed is the speed of the position being entered
EnterPosition(s, l, rotationMultiplier, previousPosition) ==
    IF l.position # previousPosition
    THEN addFrameDelta(s, rotationMultiplier, l.thisTransitionRotation, Zero, l.position,
                       Div(Add(l.flipSpeed, relativePositionSpeeds(l.position)), Rat(2, 1)))
    ELSE s

\* rotationInPosition after the two decrements that precede the
\* "Final Position" frame
RotationBeforeKickout(l, previousPosition) ==
    Sub(IF l.position # previousPosition
        THEN Sub(l.rotationInPosition, l.thisTransitionRotation)
        ELSE l.rotationInPosition,
        l.thisTransitionRotation)

\* if (needsKickout) { ... }: "Final Position", "Kickout Position" and
\* "Landing Position"
KickoutFrames(s, l, def, rp, rotationMultiplier, rotationInPosition) ==
    LET kickSpeed == Div(Add(l.flipSpeed, One), Rat(2, 1))
        kickoutTransitionTime == Div(l.thisTransitionRotation, kickSpeed)
        totalKickoutTime == Add(kickoutTransitionTime, rp.kickoutRotation)
        twistAtKickout == Mul(Div(kickoutTransitionTime, totalKickoutTime),
                              l.currentTwist)
    IN  addFrameDelta(
            addFrameDelta(
                addFrameDelta(s, rotationMultiplier, rotationInPosition, Zero,
                              def.position, l.flipSpeed),
                rotationMultiplier, l.thisTransitionRotation, twistAtKickout,
                "StraightArmsDown", kickSpeed),
            rotationMultiplier, rp.kickoutRotation, Sub(l.currentTwist, twistAtKickout),
            bedPositionToJoints(def.endingPosition), One)

\* else { ... }: "Rotation Position"
RotationFrame(s, l, def, rotationMultiplier) ==
    addFrameDelta(s, rotationMultiplier,
                  Sub(l.flipFinalRotation, s.cumulativeRotation), l.currentTwist,
                  IF l.isLastFlip THEN bedPositionToJoints(def.endingPosition)
                                  ELSE l.position,
                  l.flipSpeed)

\* the frames one iteration adds, given its locals l
FlipFrames(s, l, def, rp, rotationMultiplier, previousPosition) ==
    IF l.needsKickout
    THEN KickoutFrames(EnterPosition(s, l, rotationMultiplier, previousPosition),
                       l, def, rp, rotationMultiplier,
                       RotationBeforeKickout(l, previousPosition))
    ELSE RotationFrame(EnterPosition(s, l, rotationMultiplier, previousPosition),
                       l, def, rotationMultiplier)

\* for (let flipNumber = 1; !isLastFlip; flipNumber++) { ... }: FlipLoop is
\* the loop entered with accumulator s, FlipRest what follows an iteration
\* whose locals are l; after an iteration previousPosition equals its
\* position, whether or not the "Enter Position" branch assigned it
RECURSIVE FlipLoop(_, _, _, _, _, _, _)
RECURSIVE FlipRest(_, _, _, _, _, _, _, _)
FlipRest(s, l, def, rp, rotationMultiplier, finalRotation, flipNo, previousPosition) ==
    IF l.isLastFlip
    THEN FlipFrames(s, l, def, rp, rotationMultiplier, previousPosition)
    ELSE FlipLoop(FlipFrames(s, l, def, rp, rotationMultiplier, previousPosition),
                  def, rp, rotationMultiplier, finalRotation, flipNo + 1, l.position)

FlipLoop(s, def, rp, rotationMultiplier, finalRotation, flipNo, previousPosition) ==
    FlipRest(s, FlipLocals(s, def, rp, finalRotation, flipNo),
             def, rp, rotationMultiplier, finalRotation, flipNo, previousPosition)

\* renderProps omitted (undefined)
NoProps == [defined |-> FALSE]

\* the frames and the elapsed-time timestamps the rotating path of
\* makeSkillFrames has accumulated when its loop ends
accumulatedFrames(def, incoming, props) ==
    LET rotationMultiplier == getRotationMultiplier(def.isBackSkill, incoming)
        initialRotation == startingRotation(def, incoming)
        s0 == [cumulativeRotation |-> Mul(initialRotation, IntRat(rotationMultiplier)),
               cumulativeTwist |-> Zero,
               elapsedTime |-> Zero,
               frames |-> <<Frame(initialRotation, Zero,
                                  bedPositionToJoints(def.startingPosition))>>,
               timestamps |-> <<Zero>>]
        rp == IF ~props.defined THEN getRenderPropertiesForSkill(def) ELSE props
        stallTwist == TwistSlot(def, 0)
        finalRotation == Add(def.flips, Mul(initialRotation, IntRat(rotationMultiplier)))
        sN == FlipLoop(addFrameDelta(s0, rotationMultiplier, rp.stallRotation, stallTwist,
                                     "StraightArmsDown", One),
                       def, rp, rotationMultiplier, finalRotation, 1, "StraightArmsDown")
    IN  sN

\* the rotating path of makeSkillFrames (flipNumber(definition) !== 0)
makeFlipFrames(def, incoming, props) ==
    [positions |-> accumulatedFrames(def, incoming, props).frames,
     timestamps |-> normalizeTimestamps(accumulatedFrames(def, incoming, props).timestamps)]

makeSkillFrames(def, incoming, props) ==
    IF flipNumber(def) = 0
    THEN makeNonFlipFrames(def, incoming)
    ELSE makeFlipFrames(def, incoming, props)

----------------------------------------------------------------------------
(* utils/skillUtils.ts: difficulty scoring *)

\* Math.round(num * 100) / 100
roundToTwo(num) == Rat(Round(Mul(num, IntRat(100))), 100)

Tenths(n) == Rat(n, 10)

rotationScore(sk) ==
    LET rotation == sk.flips
        band == CASE Ge(rotation, IntRat(1)) /\ Lt(rotation, IntRat(2)) ->
                       [score |-> Tenths(5), rest |-> Sub(rotation, IntRat(1))]
                  [] Ge(rotation, IntRat(2)) /\ Lt(rotation, IntRat(3)) ->
                       [score |-> Add(Tenths(10), IF sk.isBackSkill THEN Tenths(1) ELSE Zero),
                        rest |-> Sub(rotation, IntRat(2))]
                  [] Ge(rotation, IntRat(3)) /\ Lt(rotation, IntRat(4)) ->
                       [score |-> Add(Tenths(16), IF sk.isBackSkill THEN Tenths(2) ELSE Zero),
                        rest |-> Sub(rotation, IntRat(3))]
                  [] Ge(rotation, IntRat(4)) ->
                       [score |-> Add(Tenths(22), IF sk.isBackSkill THEN Tenths(3) ELSE Zero),
                        rest |-> Sub(rotation, IntRat(4))]
                  [] OTHER -> [score |-> Zero, rest |-> rotation]
    IN  Add(band.score, Mul(IntRat(Floor(Div(band.rest, Rat(1, 4)))), Tenths(1)))

twistScore(sk) ==
    LET halfTwists == Floor(Div(totalTwists(sk), Rat(1, 2)))
        base == Mul(IntRat(halfTwists), Tenths(1))
        extra == IF halfTwists - 2 > 0 THEN halfTwists - 2 ELSE 0
    IN  IF Ge(sk.flips, IntRat(4)) THEN Mul(base, IntRat(3))
        ELSE IF Ge(sk.flips, IntRat(3)) THEN Add(base, Mul(IntRat(extra), Tenths(2)))
        ELSE IF Ge(sk.flips, IntRat(2)) THEN Add(base, Mul(IntRat(extra), Tenths(1)))
        ELSE base

positionScore(sk) ==
    IF sk.position = "Tuck" THEN Zero
    ELSE LET flips == Floor(sk.flips)
         IN  IF flips = 1 /\ totalTwists(sk) # Zero THEN Zero
             ELSE Mul(IntRat(flips), Tenths(1))

\* String(n) for the non-negative multiples of 1/4 the model uses
NumberToString(x) ==
    CASE IsNaN(x) -> "NaN"
      [] x[2] = 1 -> ToString(x[1])
      [] x[2] = 2 -> ToString(x[1] \div 2) \o ".5"
      [] x[2] = 4 -> ToString(x[1] \div 4) \o (IF x[1] % 4 = 1 THEN ".25" ELSE ".75")

\* Array.prototype.toString: the elements joined by ","
RECURSIVE JoinNumbers(_)
JoinNumbers(list) ==
    IF list = <<>> THEN ""
    ELSE IF Len(list) = 1 THEN NumberToString(list[1])
    ELSE NumberToString(list[1]) \o "," \o JoinNumbers(Tail(list))

BooleanToString(b) == IF b THEN "true" ELSE "false"

\* getSkillCacheKey leaving the flip count out of the key
getSkillCacheKey_NoFlips(sk) ==
    sk.name \o "-" \o sk.position \o "-"
        \o JoinNumbers(sk.twists) \o "-" \o BooleanToString(sk.isBackSkill)

getSkillCacheKey(sk) ==
    sk.name \o "-" \o sk.position \o "-" \o NumberToString(sk.flips) \o "-"
        \o JoinNumbers(sk.twists) \o "-" \o BooleanToString(sk.isBackSkill)

\* the first test of calculateDifficultyScore: a straight jump scores 0
IsStraightJump(sk) ==
    sk.flips = Zero /\ totalTwists(sk) = Zero /\ sk.position = Straight

\* computeScore without the Math.max against the minimum
computeScore_NoMinimum(sk, minimum) ==
    roundToTwo(Add(Add(rotationScore(sk), twistScore(sk)), positionScore(sk)))

\* the score calculateDifficultyScore computes on a cache miss
computeScore(sk, minimum) ==
    RMax(roundToTwo(Add(Add(rotationScore(sk), twistScore(sk)), positionScore(sk))),
         minimum)

\* calculateDifficultyScore(sk) called with the cache `cache`: the returned
\* value, the cache after the call, and how the cache was used
calculateDifficultyScore(sk, cache, minimum) ==
    IF IsStraightJump(sk)
    THEN [score |-> Zero, cache |-> cache, access |-> "none"]
    ELSE LET cacheKey == getSkillCacheKey(sk)
         IN  IF cacheKey \in DOMAIN cache
             THEN [score |-> cache[cacheKey], cache |-> cache, access |-> "hit"]
             ELSE LET score == computeScore(sk, minimum)
                  IN  [score |-> score,
                       cache |-> [k \in DOMAIN cache \cup {cacheKey} |->
                                     IF k = cacheKey THEN score ELSE cache[k]],
                       access |-> "miss"]

EmptyCache == [k \in {} |-> Zero]

----------------------------------------------------------------------------
(* utils/routineValidation.ts: position continuity *)

\* previousSkill.endingPosition !== currentSkill.startingPosition, for the
\* pair ending at the 1-based index i
Mismatch(rt, i) ==
    rt[i - 1].endingPosition # rt[i].startingPosition

\* the loop of isRoutineValid returning after its first iteration
ValidFrom_FirstPairOnly(rt, i) ==
    IF i > Len(rt) THEN TRUE ELSE ~Mismatch(rt, i)

\* the for loop of isRoutineValid from the 1-based index i on
RECURSIVE ValidFrom(_, _)
ValidFrom(rt, i) ==
    IF i > Len(rt) THEN TRUE
    ELSE IF Mismatch(rt, i) THEN FALSE
    ELSE ValidFrom(rt, i + 1)

isRoutineValid(rt) ==
    IF Len(rt) <= 1 THEN TRUE ELSE ValidFrom(rt, 2)

\* the message pushed for a mismatching pair, as the sequence of the pieces
\* of its template literal
ErrorMessage(previousSkill, currentSkill) ==
    <<"\"", currentSkill.name, "\" cannot follow \"", previousSkill.name, "\" - ",
      previousSkill.name, " ends in ", previousSkill.endingPosition, " position but ",
      currentSkill.name, " starts from ", currentSkill.startingPosition, " position">>

\* the loop of getRoutineValidationErrors leaving at the first error
RECURSIVE ErrorsFrom_StopAtFirst(_, _, _)
ErrorsFrom_StopAtFirst(rt, i, errors) ==
    IF i > Len(rt) THEN errors
    ELSE IF Mismatch(rt, i)
    THEN Append(errors, ErrorMessage(rt[i - 1], rt[i]))
    ELSE ErrorsFrom_StopAtFirst(rt, i + 1, errors)

\* the for loop of getRoutineValidationErrors from the 1-based index i on
RECURSIVE ErrorsFrom(_, _, _)
ErrorsFrom(rt, i, errors) ==
    IF i > Len(rt) THEN errors
    ELSE ErrorsFrom(rt, i + 1,
                    IF Mismatch(rt, i)
                    THEN Append(errors, ErrorMessage(rt[i - 1], rt[i]))
                    ELSE errors)

getRoutineValidationErrors(rt) ==
    IF Len(rt) <= 1 THEN <<>> ELSE ErrorsFrom(rt, 2, <<>>)

----------------------------------------------------------------------------
(* utils/routineValidation.ts: generateValidRandomRoutine *)

\* the skills applyRandomPosition can return for a skill
applyRandomPosition(sk) ==
    IF Len(sk.possiblePositions) > 0
    THEN {[sk EXCEPT !.position = sk.possiblePositions[i]] :
             i \in 1..Len(sk.possiblePositions)}
    ELSE {sk}

StartsFrom(list, bedPosition) ==
    LET Keep(sk) == sk.startingPosition = bedPosition IN SelectSeq(list, Keep)

\* availableSkills.filter((skill) => skill.name !== nextSkill.name)
WithoutName(list, name) ==
    LET Keep(sk) == sk.name # name IN SelectSeq(list, Keep)

Elements(list) == {list[i] : i \in 1..Len(list)}

----------------------------------------------------------------------------
(* utils/requirementValidation.ts: COMMON_VALIDATORS                        *)
(*                                                                          *)
(* A rule is a record: id is the rule's id string as the sequence of the    *)
(* pieces id.split("-") yields (names and positions of the model hold no    *)
(* "-"), kind names the factory that built the rule, and the other fields   *)
(* are the values its validator closure captured.  The description, which   *)
(* no code reads, is left out.                                              *)

\* calculateDifficultyScore(skill): the returned value is the same whatever
\* the cache holds
difficultyOf(sk, minimum) == calculateDifficultyScore(sk, EmptyCache, minimum).score

\* routine.filter(keep).length
CountWhere(rt, Keep(_)) == Cardinality({i \in 1..Len(rt) : Keep(rt[i])})

\* Math.max(...list): -Infinity for the empty list, a value every comparison
\* of the validators with a finite number rejects
RECURSIVE MaxOf(_)
MaxOf(list) ==
    IF list = <<>> THEN NaN
    ELSE IF Len(list) = 1 THEN list[1]
    ELSE RMax(list[1], MaxOf(Tail(list)))

\* const tripleThreshold = womens ? ..._WOMENS : ..._MENS
tripleThresholdFor(isWomens, thresholds) ==
    IF isWomens THEN thresholds.TRIPLE_THRESHOLD_WOMENS
    ELSE thresholds.TRIPLE_THRESHOLD_MENS

\* the module-level cache after calculateDifficultyScore has been called on
\* the skills of rt in order
RECURSIVE cacheAfterScoring(_, _, _)
cacheAfterScoring(rt, cache, minimum) ==
    IF rt = <<>> THEN cache
    ELSE cacheAfterScoring(Tail(rt),
                           calculateDifficultyScore(rt[1], cache, minimum).cache, minimum)

\* routineDifficultyScore counting every triple, whatever the threshold
routineDifficultyScore_EveryTriple(rt, minimum, threshold) ==
    LET totalScore == SumSeq([i \in 1..Len(rt) |-> difficultyOf(rt[i], minimum)])
        IsTriple(sk) == Ge(sk.flips, IntRat(3))
        tripleCount == CountWhere(rt, IsTriple)
    IN  roundToTwo(Add(totalScore, Mul(IntRat(tripleCount), Rat(3, 10))))

\* routineDifficultyScore, with threshold the tripleThreshold of the selected
\* scoring system
routineDifficultyScore(rt, minimum, threshold) ==
    LET totalScore == SumSeq([i \in 1..Len(rt) |-> difficultyOf(rt[i], minimum)])
        IsTriple(sk) == Ge(sk.flips, IntRat(3))
        tripleCount == CountWhere(rt, IsTriple)
    IN  roundToTwo(IF tripleCount > threshold
                   THEN Add(totalScore, Mul(IntRat(tripleCount - threshold), Rat(3, 10)))
                   ELSE totalScore)

minSkills(count) ==
    [id |-> <<"min", "skills", ToString(count)>>, kind |-> "minSkills", count |-> count]

maxSkillsRule(count) ==
    [id |-> <<"max", "skills", ToString(count)>>, kind |-> "maxSkills", count |-> count]

exactSkills(count) ==
    [id |-> <<"exact", "skills", ToString(count)>>, kind |-> "exactSkills", count |-> count]

minDifficultyRule(score) ==
    [id |-> <<"min", "difficulty", NumberToString(score)>>, kind |-> "minDifficulty",
     score |-> score]

maxDifficulty(score) ==
    [id |-> <<"max", "difficulty", NumberToString(score)>>, kind |-> "maxDifficulty",
     score |-> score]

minFlips(flips) ==
    [id |-> <<"min", "flips", NumberToString(flips)>>, kind |-> "minFlips", flips |-> flips]

minTwists(twists) ==
    [id |-> <<"min", "twists", NumberToString(twists)>>, kind |-> "minTwists",
     twists |-> twists]

startPosition(position) ==
    [id |-> <<"start", "position", position>>, kind |-> "startPosition",
     position |-> position]

endPosition(position) ==
    [id |-> <<"end", "position", position>>, kind |-> "endPosition", position |-> position]

includePosition(position, count) ==
    [id |-> <<"include", "position", position, ToString(count)>>,
     kind |-> "includePosition", position |-> position, count |-> count]

\* position "" stands for the argument left out
includeSkill(skillName, position) ==
    [id |-> <<"include", "skill", skillName>> \o (IF position # "" THEN <<position>> ELSE <<>>),
     kind |-> "includeSkill", skillName |-> skillName, position |-> position]

includesSequence(skillNames, positions) ==
    [id |-> <<"includes", "sequence">> \o skillNames, kind |-> "includesSequence",
     skillNames |-> skillNames, positions |-> positions]

\* position "" stands for the argument left out
skillAtIndex(index, skillName, position) ==
    [id |-> <<"skill", "at", "index", ToString(index), skillName>>
                \o (IF position # "" THEN <<position>> ELSE <<>>),
     kind |-> "skillAtIndex", index |-> index, skillName |-> skillName,
     position |-> position]

includeLanding(bedPosition, count) ==
    [id |-> <<"include", "landing", bedPosition, ToString(count)>>,
     kind |-> "includeLanding", bedPosition |-> bedPosition, count |-> count]

noDuplicates == [id |-> <<"no", "duplicates">>, kind |-> "noDuplicates"]

maxElementDifficulty(maxDifficultyArg) ==
    [id |-> <<"max", "element", "difficulty", NumberToString(maxDifficultyArg)>>,
     kind |-> "maxElementDifficulty", maxDifficulty |-> maxDifficultyArg]

maxNonSommersaults(maxCount) ==
    [id |-> <<"max", "non", "sommersaults", ToString(maxCount)>>,
     kind |-> "maxNonSommersaults", maxCount |-> maxCount]

minElementsWithMinRotation(count, minRotation) ==
    [id |-> <<"min", "elements", "with", "min", "rotation", ToString(count), "count",
              NumberToString(minRotation), "minRotation">>,
     kind |-> "minElementsWithMinRotation", count |-> count, minRotation |-> minRotation]

minElementFlipsAndTwists(count, minFlipsArg, minTwistsArg) ==
    [id |-> <<"min", "elements", "with", "min", "flips", NumberToString(minFlipsArg),
              "min", "twists", NumberToString(minTwistsArg), "count", ToString(count)>>,
     kind |-> "minElementFlipsAndTwists", count |-> count, minFlips |-> minFlipsArg,
     minTwists |-> minTwistsArg]

maxElementsWithMinRotation(maxCount, minRotation) ==
    [id |-> <<"max", "elements", "with", "min", "rotation", ToString(maxCount),
              "minRotation", NumberToString(minRotation)>>,
     kind |-> "maxElementsWithMinRotation", maxCount |-> maxCount,
     minRotation |-> minRotation]

\* the validator of maxSkills comparing with < instead of <=
maxSkillsValidator_Strict(rt, count) == Len(rt) < count

\* routine.length <= count
maxSkillsValidator(rt, count) == Len(rt) <= count

RECURSIVE JoinIds(_)
JoinIds(validators) ==
    IF validators = <<>> THEN <<>>
    ELSE validators[1].id \o JoinIds(Tail(validators))

or(validators) ==
    [id |-> <<"or">> \o JoinIds(validators), kind |-> "or", validators |-> validators]

\* the two tests of the inner loop without the test of the position
SequenceElementMatches_NameOnly(routineSkill, expectedName, expectedPosition) ==
    routineSkill.name = expectedName

\* the two tests of the inner loop of includesSequence on one skill
SequenceElementMatches(routineSkill, expectedName, expectedPosition) ==
    IF routineSkill.name # expectedName THEN FALSE
    ELSE IF expectedPosition # "Free" /\ routineSkill.position # expectedPosition
    THEN FALSE
    ELSE TRUE

\* the inner loop of includesSequence: the window that starts at the 0-based
\* startIdx matches from the 0-based seqIdx on
RECURSIVE SequenceMatches(_, _, _, _)
SequenceMatches(rt, rl, startIdx, seqIdx) ==
    IF seqIdx >= Len(rl.skillNames) THEN TRUE
    ELSE IF ~SequenceElementMatches(rt[startIdx + seqIdx + 1],
                                    rl.skillNames[seqIdx + 1], rl.positions[seqIdx + 1])
    THEN FALSE
    ELSE SequenceMatches(rt, rl, startIdx, seqIdx + 1)

\* rule.validator(routine).  The value "TypeError" stands for the exception
\* a property read on undefined throws.
RECURSIVE validator(_, _, _, _)
validator(rl, rt, minimum, threshold) ==
    CASE rl.kind = "minSkills" -> Len(rt) >= rl.count
      [] rl.kind = "maxSkills" -> maxSkillsValidator(rt, rl.count)
      [] rl.kind = "exactSkills" -> Len(rt) = rl.count
      [] rl.kind = "minDifficulty" ->
            Ge(routineDifficultyScore(rt, minimum, threshold), rl.score)
      [] rl.kind = "maxDifficulty" ->
            Le(routineDifficultyScore(rt, minimum, threshold), rl.score)
      [] rl.kind = "minFlips" ->
            \E i \in 1..Len(rt) : Ge(rt[i].flips, rl.flips)
      [] rl.kind = "minTwists" ->
            \E i \in 1..Len(rt) : Ge(MaxOf(rt[i].twists), rl.twists)
      [] rl.kind = "startPosition" ->
            Len(rt) > 0 /\ rt[1].startingPosition = rl.position
      [] rl.kind = "endPosition" ->
            Len(rt) > 0 /\ rt[Len(rt)].endingPosition = rl.position
      [] rl.kind = "includePosition" ->
            LET Keep(sk) == sk.position = rl.position
            IN  CountWhere(rt, Keep) >= rl.count
      [] rl.kind = "includeSkill" ->
            \E i \in 1..Len(rt) :
                /\ rt[i].name = rl.skillName
                /\ (rl.position = "" \/ rl.position = "Free"
                       \/ rt[i].position = rl.position)
      [] rl.kind = "includesSequence" ->
            IF Len(rl.skillNames) # Len(rl.positions) THEN FALSE
            ELSE \E startIdx \in 0..(Len(rt) - Len(rl.skillNames)) :
                     SequenceMatches(rt, rl, startIdx, 0)
      [] rl.kind = "skillAtIndex" ->
            IF Len(rt) <= rl.index THEN FALSE
            ELSE IF rl.index < 0 THEN "TypeError"
            ELSE /\ rt[rl.index + 1].name = rl.skillName
                 /\ (rl.position = "" \/ rt[rl.index + 1].position = rl.position
                        \/ rl.position = "Free")
      [] rl.kind = "includeLanding" ->
            LET Keep(sk) == sk.endingPosition = rl.bedPosition
            IN  CountWhere(rt, Keep) >= rl.count
      [] rl.kind = "noDuplicates" ->
            Len(rt) = Cardinality({<<rt[i].name, rt[i].position>> : i \in 1..Len(rt)})
      [] rl.kind = "maxElementDifficulty" ->
            \A i \in 1..Len(rt) : Le(difficultyOf(rt[i], minimum), rl.maxDifficulty)
      [] rl.kind = "maxNonSommersaults" ->
            LET Keep(sk) == flipNumber(sk) = 0
            IN  CountWhere(rt, Keep) <= rl.maxCount
      [] rl.kind = "minElementsWithMinRotation" ->
            LET Keep(sk) == Ge(sk.flips, rl.minRotation)
            IN  CountWhere(rt, Keep) >= rl.count
      [] rl.kind = "minElementFlipsAndTwists" ->
            LET Keep(sk) == Ge(sk.flips, rl.minFlips)
                               /\ Ge(totalTwists(sk), rl.minTwists)
            IN  CountWhere(rt, Keep) >= rl.count
      [] rl.kind = "maxElementsWithMinRotation" ->
            LET Keep(sk) == Ge(sk.flips, rl.minRotation)
            IN  CountWhere(rt, Keep) <= rl.maxCount
      [] rl.kind = "or" ->
            \E i \in 1..Len(rl.validators) :
                validator(rl.validators[i], rt, minimum, threshold)

\* validateRoutineRequirements(routine, requirement).every((r) => r.passed)
AllPassed(rt, rules, minimum, threshold) ==
    \A i \in 1..Len(rules) : validator(rules[i], rt, minimum, threshold)

----------------------------------------------------------------------------
(* utils/routineValidation.ts: generateRequirementCompliantRoutine and the  *)
(* functions it calls                                                       *)

\* the requirement argument when it is null
NullRequirement == [isNull |-> TRUE]

\* an empty slot of routineTemplate
NullSlot == [isNullSlot |-> TRUE]

\* parseInt of a piece of a rule id; -1 stands for the NaN a piece that is
\* not a number gives
parseInt(piece) ==
    IF \E n \in 0..99 : ToString(n) = piece
    THEN CHOOSE n \in 0..99 : ToString(n) = piece
    ELSE -1

\* parseFloat of the last piece of a max-element-difficulty id
parseFloat(piece) ==
    LET values == {Rat(q, 4) : q \in 0..40}
    IN  IF \E x \in values : NumberToString(x) = piece
        THEN CHOOSE x \in values : NumberToString(x) = piece
        ELSE NaN

\* id.startsWith(prefix), for a prefix that is a whole number of pieces
IdStartsWith(id, prefix) ==
    Len(id) >= Len(prefix) /\ SubSeq(id, 1, Len(prefix)) = prefix

\* rule.id.includes("skill-at-index")
IsSkillAtIndexId(id) ==
    \E k \in 1..(Len(id) - 2) : SubSeq(id, k, k + 2) = <<"skill", "at", "index">>

\* rules.find((rule) => rule.id.startsWith(prefix)): the 1-based index of the
\* first such rule, 0 when there is none
FindRule(rules, prefix) ==
    IF \E k \in 1..Len(rules) : IdStartsWith(rules[k].id, prefix)
    THEN CHOOSE k \in 1..Len(rules) :
             /\ IdStartsWith(rules[k].id, prefix)
             /\ \A j \in 1..(k - 1) : ~IdStartsWith(rules[j].id, prefix)
    ELSE 0

\* parseInt(rule.id.split("-")[2]) of the first rule whose id starts with
\* prefix, -1 when there is none
CountOfRule(rules, prefix) ==
    IF FindRule(rules, prefix) = 0 THEN -1
    ELSE parseInt(rules[FindRule(rules, prefix)].id[3])

defaultLength == 10

getMaxSkillsFromRequirement(req) ==
    IF FindRule(req.rules, <<"exact", "skills">>) # 0
    THEN CountOfRule(req.rules, <<"exact", "skills">>)
    ELSE IF FindRule(req.rules, <<"max", "skills">>) # 0
    THEN CountOfRule(req.rules, <<"max", "skills">>)
    ELSE IF FindRule(req.rules, <<"min", "skills">>) # 0
    THEN IF CountOfRule(req.rules, <<"min", "skills">>) + 3 > defaultLength
         THEN CountOfRule(req.rules, <<"min", "skills">>) + 3 ELSE defaultLength
    ELSE defaultLength

\* targetLength of generateSpecificRoutine
specificTargetLength(req) ==
    IF FindRule(req.rules, <<"exact", "skills">>) # 0
    THEN CountOfRule(req.rules, <<"exact", "skills">>)
    ELSE defaultLength

\* pieces.join(" ")
RECURSIVE JoinWithSpace(_)
JoinWithSpace(pieces) ==
    IF pieces = <<>> THEN ""
    ELSE IF Len(pieces) = 1 THEN pieces[1]
    ELSE pieces[1] \o " " \o JoinWithSpace(Tail(pieces))

\* what generateSpecificRoutine reads out of the id of a skill-at-index rule;
\* position "" stands for undefined
parseSkillAtIndexId(parts) ==
    [index |-> parseInt(parts[4]),
     skillName |-> JoinWithSpace(SubSeq(parts, 5, Len(parts) - 1)),
     position |-> IF parts[Len(parts)] # parts[5] THEN parts[Len(parts)] ELSE ""]

\* specificSkillRules of generateRequirementCompliantRoutine: the rules
\* filtered by id.includes("skill-at-index")
specificSkillRules(rules) ==
    LET Specific(rl) == IsSkillAtIndexId(rl.id) IN SelectSeq(rules, Specific)

\* the rules filtered by id.startsWith("skill-at-index") and mapped to what
\* their ids parse to, in rule order
RECURSIVE skillAtIndexRules(_)
skillAtIndexRules(rules) ==
    IF rules = <<>> THEN <<>>
    ELSE IF IdStartsWith(rules[1].id, <<"skill", "at", "index">>)
    THEN <<parseSkillAtIndexId(rules[1].id)>> \o skillAtIndexRules(Tail(rules))
    ELSE skillAtIndexRules(Tail(rules))

\* .sort((a, b) => a.index - b.index), a stable sort: the rules of index
\* `from`, then those of the indices above it
RECURSIVE SortByIndex(_, _)
SortByIndex(list, from) ==
    IF \A k \in 1..Len(list) : list[k].index < from THEN <<>>
    ELSE LET Here(r) == r.index = from
         IN  SelectSeq(list, Here) \o SortByIndex(list, from + 1)

\* skillDefinitions.find((s) => s.name === name): its 1-based index, 0 when
\* no skill has the name
FindByName(pool, name) ==
    IF \E k \in 1..Len(pool) : pool[k].name = name
    THEN CHOOSE k \in 1..Len(pool) :
             pool[k].name = name /\ \A j \in 1..(k - 1) : pool[j].name # name
    ELSE 0

Includes(list, x) == \E k \in 1..Len(list) : list[k] = x

\* the skill a skill-at-index rule puts in the template
FixedSkill(sk, skillRule) ==
    IF skillRule.position # "" /\ Includes(sk.possiblePositions, skillRule.position)
    THEN [sk EXCEPT !.position = skillRule.position]
    ELSE sk

\* the loop that places the specific skills at their indices
RECURSIVE PlaceSpecificSkills(_, _, _)
PlaceSpecificSkills(template, sortedRules, pool) ==
    IF sortedRules = <<>> THEN template
    ELSE LET skillRule == sortedRules[1]
             found == FindByName(pool, skillRule.skillName)
         IN  PlaceSpecificSkills(
                 IF found # 0 /\ skillRule.index < Len(template)
                 THEN [template EXCEPT ![skillRule.index + 1] =
                                           FixedSkill(pool[found], skillRule)]
                 ELSE template,
                 Tail(sortedRules), pool)

\* routineTemplate after the placement loop
initialTemplate(pool, req) ==
    PlaceSpecificSkills([k \in 1..specificTargetLength(req) |-> NullSlot],
                        SortByIndex(skillAtIndexRules(req.rules), -1), pool)

\* the compatible skills for the empty slot at the 0-based index i
compatibleForSlot(pool, template, i) ==
    LET Fits(sk) ==
            /\ IF i = 0 THEN sk.startingPosition = "Standing"
               ELSE template[i] = NullSlot
                       \/ sk.startingPosition = template[i].endingPosition
            /\ IF i = Len(template) - 1 THEN TRUE
               ELSE template[i + 2] = NullSlot
                       \/ sk.endingPosition = template[i + 2].startingPosition
    IN  SelectSeq(pool, Fits)

\* finalRoutine keeping the empty slots of the template
finalRoutineOf_KeepEmptySlots(template) == template

\* routineTemplate.filter((skill) => skill !== null)
finalRoutineOf(template) ==
    LET Filled(slot) == slot # NullSlot IN SelectSeq(template, Filled)

minimumSpecificLength == 3

hasNoDuplicates(req) == \E k \in 1..Len(req.rules) : req.rules[k].id = <<"no", "duplicates">>

\* maxElementDifficulty of generateConstrainedRandomRoutine; NaN stands for
\* null, which like 0 makes every test of it fail
maxElementDifficultyOf(req) ==
    IF FindRule(req.rules, <<"max", "element", "difficulty">>) = 0 THEN NaN
    ELSE parseFloat(req.rules[FindRule(req.rules, <<"max", "element", "difficulty">>)].id[4])

\* maxElementDifficulty && !relaxedMode
FilterByDifficulty(maxElement, relaxed) ==
    ~IsNaN(maxElement) /\ maxElement # Zero /\ ~relaxed

\* calculateDifficultyScore({...skill, position: pos}) <= maxElementDifficulty
WithinDifficulty(sk, pos, maxElement, minimum) ==
    Le(difficultyOf([sk EXCEPT !.position = pos], minimum), maxElement)

\* availableSkills of generateConstrainedRandomRoutine
constrainedAvailableSkills(pool, maxElement, relaxed, minimum) ==
    LET Allowed(sk) ==
            \/ \E k \in 1..Len(sk.possiblePositions) :
                   WithinDifficulty(sk, sk.possiblePositions[k], maxElement, minimum)
            \/ WithinDifficulty(sk, sk.position, maxElement, minimum)
        filtered == IF FilterByDifficulty(maxElement, relaxed)
                    THEN SelectSeq(pool, Allowed) ELSE pool
    IN  IF Len(filtered) = 0 THEN pool ELSE filtered

\* the key `${skill.name}-${position}` of usedCombinations, as its two pieces
combinationKey(name, position) == <<name, position>>

\* the no-duplicates filter of compatibleSkills
HasUnusedCombination(sk, used) ==
    \/ \E k \in 1..Len(sk.possiblePositions) :
           combinationKey(sk.name, sk.possiblePositions[k]) \notin used
    \/ combinationKey(sk.name, sk.position) \notin used

\* compatibleSkills without the no-duplicates filter
constrainedCompatibleSkills_AllowsUsed(available, lastSkill, noDup, used) ==
    LET Compatible(sk) == sk.startingPosition = lastSkill.endingPosition
    IN  SelectSeq(available, Compatible)

\* compatibleSkills of one iteration of the while loop
constrainedCompatibleSkills(available, lastSkill, noDup, used) ==
    LET Compatible(sk) ==
            /\ sk.startingPosition = lastSkill.endingPosition
            /\ noDup => HasUnusedCombination(sk, used)
    IN  SelectSeq(available, Compatible)

\* availablePositions of applyConstrainedPosition.  The call for the first
\* skill passes no usedCombinations: no combination is used yet, so the empty
\* set gives the same positions.
availablePositions(sk, maxElement, relaxed, used, minimum) ==
    LET Unused(pos) == combinationKey(sk.name, pos) \notin used
        Affordable(pos) == WithinDifficulty(sk, pos, maxElement, minimum)
        unusedPositions == SelectSeq(sk.possiblePositions, Unused)
        affordable == IF FilterByDifficulty(maxElement, relaxed)
                      THEN SelectSeq(unusedPositions, Affordable)
                      ELSE unusedPositions
    IN  IF Len(affordable) # 0 THEN affordable
        ELSE IF Len(unusedPositions) # 0 THEN unusedPositions
        ELSE sk.possiblePositions

\* the skills applyConstrainedPosition can return
applyConstrainedPosition(sk, maxElement, relaxed, used, minimum) ==
    IF Len(sk.possiblePositions) = 0 THEN {sk}
    ELSE {[sk EXCEPT !.position = pos] :
             pos \in Elements(availablePositions(sk, maxElement, relaxed, used, minimum))}

maxSkillAttempts == 100

relaxedFallbackLength == 5

----------------------------------------------------------------------------
(* hooks/useSkills.ts: useSkillDefinitions                                  *)
(*                                                                          *)
(* The body a source answers with is an array of SkillDefinition objects,   *)
(* as the type of the hook says; for such bodies nothing between the try    *)
(* and the catch of loadSkillsFromSources throws outside the promises of    *)
(* the sources, so the catch is never entered.                              *)

\* the state error when it is null
NullError == [isNull |-> TRUE]

ErrorOf(message) == [isNull |-> FALSE, message |-> message]

\* list.join(separator)
RECURSIVE Join(_, _)
Join(list, separator) ==
    IF list = <<>> THEN ""
    ELSE IF Len(list) = 1 THEN list[1]
    ELSE list[1] \o separator \o Join(Tail(list), separator)

\* the key of the duplicate test made of the name alone
skillKey_NameOnly(sk) == sk.name

\* `${skill.name}-${skill.position}`
skillKey(sk) == sk.name \o "-" \o sk.position

\* allSkills: the skills of the fulfilled results from the 1-based index i
\* on, in the order of the sources
RECURSIVE allSkills(_, _, _)
allSkills(answers, results, i) ==
    IF i > Len(results) THEN <<>>
    ELSE (IF results[i] = "fulfilled" THEN answers[i].skills ELSE <<>>)
             \o allSkills(answers, results, i + 1)

\* the reduce that builds uniqueSkills, from the accumulator acc on
RECURSIVE uniqueSkillsFrom(_, _)
uniqueSkillsFrom(acc, rest) ==
    IF rest = <<>> THEN acc
    ELSE uniqueSkillsFrom(
             IF \E k \in 1..Len(acc) : skillKey(acc[k]) = skillKey(rest[1])
             THEN acc ELSE Append(acc, rest[1]),
             Tail(rest))

uniqueSkills(all) == uniqueSkillsFrom(<<>>, all)

\* failedSources: the sources of the results that are not fulfilled, from the
\* 1-based index i on
RECURSIVE failedSources(_, _, _)
failedSources(names, results, i) ==
    IF i > Len(results) THEN <<>>
    ELSE (IF results[i] # "fulfilled" THEN <<names[i]>> ELSE <<>>)
             \o failedSources(names, results, i + 1)

\* defaultPositions: for each name the position of the last unique skill
\* that has it
defaultPositions(unique) ==
    [n \in {unique[k].name : k \in 1..Len(unique)} |->
        unique[CHOOSE k \in 1..Len(unique) :
                   /\ unique[k].name = n
                   /\ \A j \in (k + 1)..Len(unique) : unique[j].name # n].position]

\* the state error naming every source once one has failed
errorAfterLoad_NamesEverySource(names, results) ==
    IF Len(failedSources(names, results, 1)) > 0
    THEN ErrorOf("Some sources failed to load: " \o Join(names, ", "))
    ELSE NullError

\* the state error after the results are in
errorAfterLoad(names, results) ==
    IF Len(failedSources(names, results, 1)) > 0
    THEN ErrorOf("Some sources failed to load: "
                    \o Join(failedSources(names, results, 1), ", "))
    ELSE NullError

----------------------------------------------------------------------------
(* Input domains *)

Half == Rat(1, 2)

FlipValues == {Rat(q, 4) : q \in 0..MaxFlipQuarters}

TwistValues == {Zero, Half}

RECURSIVE SeqsUpTo(_, _)
SeqsUpTo(S, n) ==
    IF n = 0 THEN {<<>>}
    ELSE LET shorter == SeqsUpTo(S, n - 1)
         IN  shorter \cup {Append(q, x) : q \in {r \in shorter : Len(r) = n - 1}, x \in S}

TwistLists == SeqsUpTo(TwistValues, MaxTwistSlots)

SkillDef(name, startP, endP, flips, twists, position, isBack) ==
    [name |-> name, startingPosition |-> startP, endingPosition |-> endP,
     flips |-> flips, twists |-> twists, position |-> position,
     possiblePositions |-> <<position>>, isBackSkill |-> isBack]

ConverterDefs ==
    {SkillDef("S", sp, ep, f, tw, p, b) :
        sp \in BedPosition, ep \in BedPosition, f \in FlipValues,
        tw \in TwistLists, p \in Position, b \in BOOLEAN}

IncomingTwists == {Zero, Half}

\* incoming twists on both sides of the odd and even multiples of 1/2
CumulativeTwists == {Zero, Rat(1, 4), Half, Rat(3, 4), One}

\* renderProps is omitted at every call site of the repository
PropsChoices == {NoProps}

NoSkill == [positions |-> <<>>, timestamps |-> <<>>]

\* skills the scoring functions are called on one at a time
ScoreDefs ==
    {SkillDef("S", "Standing", "Standing", Rat(q, 4), tw, p, b) :
        q \in 0..MaxScoreFlipQuarters, tw \in TwistLists, p \in Position, b \in BOOLEAN}

\* candidate values of CONSTANTS.SCORING.MIN_DIFFICULTY
MinDifficultyChoices == {Zero, Rat(1, 10), Rat(3, 5)}

\* skills the cache is exercised with in pairs: names that contain the key's
\* separator, and skills that differ in one field of the key or in none
CacheDefs ==
    {SkillDef(n, sp, "Standing", IntRat(f), tw, p, b) :
        n \in {"A", "A-Tuck"}, sp \in {"Standing", "Back"}, f \in 0..MaxCacheFlips,
        tw \in {<<>>, <<Half>>}, p \in {Straight, "Tuck"}, b \in {FALSE}}

\* skills converted in between scoring calls: the straight jump and
\* twisting somersaults from the back, forward and backward
DeterminismDefs ==
    {SkillDef("S", "Standing", "Standing", Zero, <<>>, Straight, FALSE)}
    \cup {SkillDef("S", "Back", "Standing", IntRat(f), <<Zero, Half>>, "Tuck", b) :
             f \in 1..MaxCacheFlips, b \in BOOLEAN}

\* skills routines are made of: two names, chaining and non-chaining positions,
\* with and without alternative body positions
RoutineDefs ==
    {[SkillDef(n, sp, ep, One, <<Zero, Zero>>, "Tuck", FALSE)
         EXCEPT !.possiblePositions = IF n = "A" THEN <<"Tuck", "Pike">> ELSE <<>>] :
        n \in {"A", "B"}, sp \in {"Standing", "Back"}, ep \in {"Standing", "Back"}}

Routines == SeqsUpTo(RoutineDefs, MaxRoutineLength)

Pools == SeqsUpTo(RoutineDefs, MaxPoolSize)

\* skills the validators are called on: a straight jump without twist slots,
\* a single somersault with a half twist and a triple back somersault
ValidatorDefs ==
    {SkillDef("J", "Standing", "Standing", Zero, <<>>, Straight, FALSE),
     SkillDef("A", "Standing", "Back", One, <<Zero, Half>>, "Tuck", FALSE),
     SkillDef("T", "Back", "Standing", IntRat(3), <<One>>, "Pike", TRUE)}

RuleRoutines == SeqsUpTo(ValidatorDefs, MaxRuleRoutineLength)

RuleCounts == 0..MaxRuleCount

\* rules built by the factories that take no rule as argument
SimpleRules ==
    {minSkills(c) : c \in RuleCounts} \cup {maxSkillsRule(c) : c \in RuleCounts}
    \cup {exactSkills(c) : c \in RuleCounts}
    \cup {minDifficultyRule(s) : s \in {Zero, IntRat(2)}}
    \cup {maxDifficulty(s) : s \in {Zero, IntRat(2)}}
    \cup {minFlips(f) : f \in {Zero, One, IntRat(3)}}
    \cup {minTwists(t) : t \in {Zero, Half}}
    \cup {startPosition(p) : p \in {"Standing", "Back"}}
    \cup {endPosition(p) : p \in {"Standing", "Back"}}
    \cup {includePosition(p, c) : p \in {"Tuck", "Pike"}, c \in RuleCounts}
    \cup {includeSkill(n, p) : n \in {"A", "Z"}, p \in {"", "Free", "Tuck"}}
    \cup {includesSequence(<<>>, <<>>), includesSequence(<<"A">>, <<>>),
          includesSequence(<<"A">>, <<"Free">>),
          includesSequence(<<"A", "T">>, <<"Tuck", "Pike">>),
          includesSequence(<<"A", "T">>, <<"Free", "Tuck">>)}
    \cup {skillAtIndex(i, n, p) : i \in RuleCounts, n \in {"A", "Z"},
                                  p \in {"", "Free", "Tuck"}}
    \cup {includeLanding(p, c) : p \in {"Standing", "Back"}, c \in RuleCounts}
    \cup {noDuplicates}
    \cup {maxElementDifficulty(d) : d \in {Zero, Half, IntRat(2)}}
    \cup {maxNonSommersaults(c) : c \in RuleCounts}
    \cup {minElementsWithMinRotation(c, r) : c \in RuleCounts, r \in {One, IntRat(3)}}
    \cup {minElementFlipsAndTwists(c, One, Half) : c \in RuleCounts}
    \cup {maxElementsWithMinRotation(c, r) : c \in RuleCounts, r \in {One, IntRat(3)}}

RuleChoices ==
    SimpleRules
    \cup {or(<<>>), or(<<noDuplicates>>), or(<<startPosition("Back"), minFlips(One)>>),
          or(<<minSkills(1), maxSkillsRule(0)>>)}

\* candidate values of CONSTANTS.FLIP_THRESHOLDS.TRIPLE_THRESHOLD_MENS
TripleThresholdChoices == {0, 1}

\* three skills of distinct names that start Standing, any of which may end
\* on the back, where no skill of the pool starts
DistinctPools ==
    {<<SkillDef("A", "Standing", a, One, <<Zero, Zero>>, "Tuck", FALSE),
       SkillDef("B", "Standing", b, One, <<Zero, Zero>>, "Tuck", FALSE),
       SkillDef("C", "Standing", c, One, <<Zero, Zero>>, "Tuck", FALSE)>> :
        a \in {"Standing", "Back"}, b \in {"Standing", "Back"}, c \in {"Standing", "Back"}}

\* a pool over three bed positions in which a routine of four skills with
\* "A" third exists (B, C, A, B) and a first skill can be chosen that no
\* skill links to "A"
GapPool ==
    <<SkillDef("X", "Standing", "Stomach", One, <<Zero, Zero>>, "Tuck", FALSE),
      SkillDef("C", "Standing", "Back", One, <<Zero, Zero>>, "Tuck", FALSE),
      SkillDef("A", "Back", "Standing", One, <<Zero, Zero>>, "Tuck", FALSE),
      SkillDef("B", "Standing", "Standing", One, <<Zero, Zero>>, "Tuck", FALSE)>>

\* a pool whose skill has a default position that is not one of its
\* possiblePositions
OffDefaultPool ==
    <<[SkillDef("A", "Standing", "Standing", One, <<Zero, Zero>>, Straight, FALSE)
          EXCEPT !.possiblePositions = <<"Tuck">>]>>

ReqPools ==
    SeqsUpTo(RoutineDefs, MaxReqPoolSize) \cup DistinctPools \cup {GapPool, OffDefaultPool}

Requirement(rules) == [isNull |-> FALSE, rules |-> rules]

\* rule lists without a skill-at-index rule: satisfiable ones, ones that
\* depend on the random choices, and ones no routine satisfies
PlainRuleLists ==
    {<<exactSkills(2), noDuplicates>>, <<exactSkills(0)>>, <<exactSkills(1)>>,
     <<exactSkills(3)>>, <<maxSkillsRule(2), endPosition("Standing")>>,
     <<noDuplicates>>, <<minSkills(1), noDuplicates, maxElementDifficulty(Half)>>,
     <<exactSkills(1), minSkills(2)>>, <<maxSkillsRule(3)>>}

\* rule lists with skill-at-index rules, built with and without a position
SpecificRuleLists ==
    {<<exactSkills(3), skillAtIndex(i, n, p)>> :
        i \in RuleCounts, n \in {"A", "B"}, p \in {"", "Pike", "Free"}}
    \cup {<<exactSkills(2), skillAtIndex(0, n1, "Free"), skillAtIndex(1, n2, "Free")>> :
             n1 \in {"A", "B"}, n2 \in {"A", "B"}}
    \cup {<<exactSkills(4), skillAtIndex(2, "A", "Free")>>}

\* the sources argument: the first n names
SourceNames == <<"usag.json", "nonflips.json", "extras.json", "more.json">>

SourceLists == {SubSeq(SourceNames, 1, n) : n \in 0..MaxSources}

\* skills the sources answer with: two that differ in the flips only, and one
\* of the same name in another position
LoadedSkillDefs ==
    {SkillDef("A", "Standing", "Standing", One, <<Zero>>, "Tuck", FALSE),
     SkillDef("A", "Standing", "Standing", Rat(2, 1), <<Zero>>, "Tuck", FALSE),
     SkillDef("A", "Standing", "Standing", One, <<Zero>>, "Pike", FALSE)}

\* what the fetch of a source can come to: a body that is an array of
\* skills, a rejected fetch, a response that is not OK, a body that is not
\* an array
ServedChoices ==
    {[kind |-> "ok", skills |-> body] : body \in SeqsUpTo(LoadedSkillDefs, MaxBodySize)}
        \cup {[kind |-> "rejected"], [kind |-> "notOk"], [kind |-> "notArray"]}

----------------------------------------------------------------------------
(* Initial values of the variables a specification does not use *)

ConvIdle ==
    /\ definition = SkillDef("S", "Standing", "Standing", Zero, <<>>, Straight, FALSE)
    /\ incomingTwist = Zero
    /\ renderProps = NoProps
    /\ skill = NoSkill
    /\ convPc = "idle"

ScoreIdle ==
    /\ scorePool = <<>>
    /\ minDifficulty = Zero
    /\ difficultyCache = EmptyCache
    /\ scoreArg = 0
    /\ scoreResult = Zero
    /\ cacheAccess = "none"
    /\ firstCall = <<>>
    /\ conversions = 0

ValidationIdle ==
    /\ routine = <<>>
    /\ validResult = TRUE
    /\ errorsResult = <<>>
    /\ validationPc = "idle"

GenIdle ==
    /\ skillDefinitions = <<>>
    /\ maxSkills = 0
    /\ genRoutine = <<>>
    /\ availableSkills = <<>>
    /\ genPc = "idle"

RuleIdle ==
    /\ rule = noDuplicates
    /\ ruleRoutine = <<>>
    /\ passed = TRUE
    /\ tripleThreshold = 0
    /\ rulePc = "idle"

ReqIdle ==
    /\ requirement = NullRequirement
    /\ maxAttempts = 0
    /\ attempt = 0
    /\ relaxedMode = FALSE
    /\ constrainedRoutine = <<>>
    /\ usedCombinations = {}
    /\ routineTemplate = <<>>
    /\ fillIndex = 0
    /\ reqResult = <<>>
    /\ reqPc = "idle"

HookIdle ==
    /\ sources = <<>>
    /\ served = <<>>
    /\ settled = <<>>
    /\ hookSkillDefinitions = <<>>
    /\ selectedPositions = <<>>
    /\ loading = FALSE
    /\ error = NullError
    /\ hookPc = "idle"

NormIdle ==
    /\ accumulated = <<>>
    /\ normalized = <<>>
    /\ normPc = "idle"

TotalIdle ==
    /\ scoredRoutine = <<>>
    /\ womens = FALSE
    /\ flipThresholds = [TRIPLE_THRESHOLD_MENS |-> 0, TRIPLE_THRESHOLD_WOMENS |-> 0]
    /\ routineScore = Zero
    /\ totalPc = "idle"

RaceIdle ==
    /\ nextSources = <<>>
    /\ earlierSources = <<>>
    /\ earlierSettled = <<>>
    /\ earlierPc = "idle"

MoveIdle ==
    /\ stateRoutine = <<>>
    /\ fromIndex = 0
    /\ toIndex = 0
    /\ routineBefore = <<>>
    /\ movePc = "idle"

PlayIdle ==
    /\ playedRoutine = <<>>
    /\ incomingTwists = <<>>
    /\ skills = <<>>
    /\ cumulativeTwistRef = Zero
    /\ previousSkillIndexRef = 0
    /\ transitions = 0
    /\ playPc = "idle"

----------------------------------------------------------------------------
(* The converter: one call of makeSkillFrames on arbitrary arguments *)

ConvInit ==
    /\ definition \in ConverterDefs
    /\ incomingTwist \in IncomingTwists
    /\ renderProps \in PropsChoices
    /\ skill = NoSkill
    /\ convPc = "ready"
    /\ ScoreIdle /\ ValidationIdle /\ GenIdle /\ RuleIdle /\ ReqIdle /\ HookIdle /\ NormIdle /\ TotalIdle /\ RaceIdle /\ MoveIdle /\ PlayIdle

\* makeSkillFrames taking the zero-rotation path
ConvertNonFlip ==
    /\ convPc = "ready"
    /\ flipNumber(definition) = 0
    /\ skill' = makeSkillFrames(definition, incomingTwist, renderProps)
    /\ convPc' = "done"
    /\ UNCHANGED <<definition, incomingTwist, renderProps>>
    /\ UNCHANGED <<scoreVars, validationVars, genVars, ruleVars, reqVars, hookVars, normVars, totalVars, raceVars, moveVars, playVars>>

\* makeSkillFrames taking the rotating path
ConvertFlip ==
    /\ convPc = "ready"
    /\ flipNumber(definition) # 0
    /\ skill' = makeSkillFrames(definition, incomingTwist, renderProps)
    /\ convPc' = "done"
    /\ UNCHANGED <<definition, incomingTwist, renderProps>>
    /\ UNCHANGED <<scoreVars, validationVars, genVars, ruleVars, reqVars, hookVars, normVars, totalVars, raceVars, moveVars, playVars>>

ConvNext == ConvertNonFlip \/ ConvertFlip

ConvSpec == ConvInit /\ [][ConvNext]_vars

\* one call of makeSkillFrames with the twist an earlier skill of the routine
\* has accumulated
TwistInit ==
    /\ definition \in ConverterDefs
    /\ Len(definition.twists) <= MaxDirectionTwistSlots
    /\ incomingTwist \in CumulativeTwists
    /\ renderProps \in PropsChoices
    /\ skill = NoSkill
    /\ convPc = "ready"
    /\ ScoreIdle /\ ValidationIdle /\ GenIdle /\ RuleIdle /\ ReqIdle /\ HookIdle /\ NormIdle /\ TotalIdle /\ RaceIdle /\ MoveIdle /\ PlayIdle

TwistSpec == TwistInit /\ [][ConvNext]_vars

----------------------------------------------------------------------------
(* The scoring engine: calls of calculateDifficultyScore on the skills of   *)
(* scorePool, in any order and any number of times                          *)

ScoreCall(i) ==
    LET r == calculateDifficultyScore(scorePool[i], difficultyCache, minDifficulty)
    IN  /\ scoreArg' = i
        /\ scoreResult' = r.score
        /\ difficultyCache' = r.cache
        /\ cacheAccess' = r.access
        /\ UNCHANGED <<scorePool, minDifficulty, firstCall, conversions>>
        /\ UNCHANGED <<convVars, validationVars, genVars, ruleVars, reqVars, hookVars, normVars, totalVars, raceVars, moveVars, playVars>>

\* calculateDifficultyScore returning at its first test
ScoreStraightJump ==
    \E i \in 1..Len(scorePool) :
        /\ IsStraightJump(scorePool[i])
        /\ ScoreCall(i)

\* calculateDifficultyScore returning the cached value
ScoreCached ==
    \E i \in 1..Len(scorePool) :
        /\ ~IsStraightJump(scorePool[i])
        /\ getSkillCacheKey(scorePool[i]) \in DOMAIN difficultyCache
        /\ ScoreCall(i)

\* calculateDifficultyScore computing and storing the score
ScoreComputed ==
    \E i \in 1..Len(scorePool) :
        /\ ~IsStraightJump(scorePool[i])
        /\ getSkillCacheKey(scorePool[i]) \notin DOMAIN difficultyCache
        /\ ScoreCall(i)

ScoreNext == ScoreStraightJump \/ ScoreCached \/ ScoreComputed

\* one skill out of the whole scoring domain
ScoreInit ==
    /\ scorePool \in {<<d>> : d \in ScoreDefs}
    /\ minDifficulty \in MinDifficultyChoices
    /\ difficultyCache = EmptyCache
    /\ scoreArg = 0
    /\ scoreResult = Zero
    /\ cacheAccess = "none"
    /\ firstCall = <<>>
    /\ conversions = 0
    /\ ConvIdle /\ ValidationIdle /\ GenIdle /\ RuleIdle /\ ReqIdle /\ HookIdle /\ NormIdle /\ TotalIdle /\ RaceIdle /\ MoveIdle /\ PlayIdle

ScoreSpec == ScoreInit /\ [][ScoreNext]_vars

\* two skills sharing the cache
CacheInit ==
    /\ scorePool \in {<<a, b>> : a \in CacheDefs, b \in CacheDefs}
    /\ minDifficulty = Rat(1, 10)
    /\ difficultyCache = EmptyCache
    /\ scoreArg = 0
    /\ scoreResult = Zero
    /\ cacheAccess = "none"
    /\ firstCall = <<>>
    /\ conversions = 0
    /\ ConvIdle /\ ValidationIdle /\ GenIdle /\ RuleIdle /\ ReqIdle /\ HookIdle /\ NormIdle /\ TotalIdle /\ RaceIdle /\ MoveIdle /\ PlayIdle

CacheSpec == CacheInit /\ [][ScoreNext]_vars

----------------------------------------------------------------------------
(* Conversions interleaved with scoring calls: firstCall remembers the      *)
(* arguments and the result of the first makeSkillFrames call               *)

ConvertCall ==
    \E i \in 1..Len(scorePool), incoming \in IncomingTwists :
        LET result == makeSkillFrames(scorePool[i], incoming, NoProps)
        IN  /\ conversions < MaxConversions
            /\ conversions' = conversions + 1
            /\ definition' = scorePool[i]
            /\ incomingTwist' = incoming
            /\ renderProps' = NoProps
            /\ skill' = result
            /\ convPc' = "done"
            /\ firstCall' = IF firstCall = <<>>
                            THEN <<[definition |-> scorePool[i], incomingTwist |-> incoming,
                                    renderProps |-> NoProps, skill |-> result]>>
                            ELSE firstCall
            /\ UNCHANGED <<scorePool, minDifficulty, difficultyCache, scoreArg,
                           scoreResult, cacheAccess>>
            /\ UNCHANGED <<validationVars, genVars, ruleVars, reqVars, hookVars, normVars, totalVars, raceVars, moveVars, playVars>>

DeterminismInit ==
    /\ scorePool \in {<<a, b>> : a \in DeterminismDefs, b \in DeterminismDefs}
    /\ minDifficulty = Rat(1, 10)
    /\ difficultyCache = EmptyCache
    /\ scoreArg = 0
    /\ scoreResult = Zero
    /\ cacheAccess = "none"
    /\ firstCall = <<>>
    /\ conversions = 0
    /\ ConvIdle /\ ValidationIdle /\ GenIdle /\ RuleIdle /\ ReqIdle /\ HookIdle /\ NormIdle /\ TotalIdle /\ RaceIdle /\ MoveIdle /\ PlayIdle

DeterminismNext == ScoreNext \/ ConvertCall

DeterminismSpec == DeterminismInit /\ [][DeterminismNext]_vars

----------------------------------------------------------------------------
(* The routine validator: isRoutineValid and getRoutineValidationErrors     *)
(* called on an arbitrary routine                                           *)

ValidationInit ==
    /\ routine \in Routines
    /\ validResult = TRUE
    /\ errorsResult = <<>>
    /\ validationPc = "ready"
    /\ ConvIdle /\ ScoreIdle /\ GenIdle /\ RuleIdle /\ ReqIdle /\ HookIdle /\ NormIdle /\ TotalIdle /\ RaceIdle /\ MoveIdle /\ PlayIdle

CallIsRoutineValid ==
    /\ validationPc = "ready"
    /\ validResult' = isRoutineValid(routine)
    /\ validationPc' = "validated"
    /\ UNCHANGED <<routine, errorsResult>>
    /\ UNCHANGED <<convVars, scoreVars, genVars, ruleVars, reqVars, hookVars, normVars, totalVars, raceVars, moveVars, playVars>>

CallGetRoutineValidationErrors ==
    /\ validationPc = "validated"
    /\ errorsResult' = getRoutineValidationErrors(routine)
    /\ validationPc' = "done"
    /\ UNCHANGED <<routine, validResult>>
    /\ UNCHANGED <<convVars, scoreVars, genVars, ruleVars, reqVars, hookVars, normVars, totalVars, raceVars, moveVars, playVars>>

ValidationNext == CallIsRoutineValid \/ CallGetRoutineValidationErrors

ValidationSpec == ValidationInit /\ [][ValidationNext]_vars

----------------------------------------------------------------------------
(* generateValidRandomRoutine(skillDefinitions, maxSkills), one action per  *)
(* branch of its body; every \E is a value Math.random can select           *)

GenInit ==
    /\ skillDefinitions \in Pools
    /\ maxSkills \in 0..MaxSkills
    /\ genRoutine = <<>>
    /\ availableSkills = <<>>
    /\ genPc = "start"
    /\ ConvIdle /\ ScoreIdle /\ ValidationIdle /\ RuleIdle /\ ReqIdle /\ HookIdle /\ NormIdle /\ TotalIdle /\ RaceIdle /\ MoveIdle /\ PlayIdle

\* if (skillDefinitions.length === 0) return [];
GenEmptyPool ==
    /\ genPc = "start"
    /\ Len(skillDefinitions) = 0
    /\ genRoutine' = <<>>
    /\ genPc' = "done"
    /\ UNCHANGED <<skillDefinitions, maxSkills, availableSkills>>
    /\ UNCHANGED <<convVars, scoreVars, validationVars, ruleVars, reqVars, hookVars, normVars, totalVars, raceVars, moveVars, playVars>>

\* the first skill, from the skills that start Standing
GenFirstStanding ==
    /\ genPc = "start"
    /\ Len(skillDefinitions) # 0
    /\ LET standingSkills == StartsFrom(skillDefinitions, "Standing")
       IN  /\ Len(standingSkills) # 0
           /\ \E firstSkill \in Elements(standingSkills) :
                \E placed \in applyRandomPosition(firstSkill) :
                    genRoutine' = <<placed>>
    /\ availableSkills' = skillDefinitions
    /\ genPc' = "loop"
    /\ UNCHANGED <<skillDefinitions, maxSkills>>
    /\ UNCHANGED <<convVars, scoreVars, validationVars, ruleVars, reqVars, hookVars, normVars, totalVars, raceVars, moveVars, playVars>>

\* the first skill when no skill starts Standing: any skill
GenFirstAny ==
    /\ genPc = "start"
    /\ Len(skillDefinitions) # 0
    /\ Len(StartsFrom(skillDefinitions, "Standing")) = 0
    /\ \E firstSkill \in Elements(skillDefinitions) :
         \E placed \in applyRandomPosition(firstSkill) :
             genRoutine' = <<placed>>
    /\ availableSkills' = skillDefinitions
    /\ genPc' = "loop"
    /\ UNCHANGED <<skillDefinitions, maxSkills>>
    /\ UNCHANGED <<convVars, scoreVars, validationVars, ruleVars, reqVars, hookVars, normVars, totalVars, raceVars, moveVars, playVars>>

\* one iteration of the while loop that appends a compatible skill
GenAppend ==
    /\ genPc = "loop"
    /\ Len(genRoutine) < maxSkills
    /\ LET lastSkill == genRoutine[Len(genRoutine)]
           compatibleSkills == StartsFrom(availableSkills, lastSkill.endingPosition)
       IN  /\ Len(compatibleSkills) # 0
           /\ \E nextSkill \in Elements(compatibleSkills) :
                /\ \E placed \in applyRandomPosition(nextSkill) :
                       genRoutine' = Append(genRoutine, placed)
                /\ availableSkills' = WithoutName(availableSkills, nextSkill.name)
                /\ genPc' = IF Len(WithoutName(availableSkills, nextSkill.name)) = 0
                            THEN "done" ELSE "loop"
    /\ UNCHANGED <<skillDefinitions, maxSkills>>
    /\ UNCHANGED <<convVars, scoreVars, validationVars, ruleVars, reqVars, hookVars, normVars, totalVars, raceVars, moveVars, playVars>>

\* the iteration that finds no compatible skill and breaks
GenNoCompatible ==
    /\ genPc = "loop"
    /\ Len(genRoutine) < maxSkills
    /\ LET lastSkill == genRoutine[Len(genRoutine)]
       IN  Len(StartsFrom(availableSkills, lastSkill.endingPosition)) = 0
    /\ genPc' = "done"
    /\ UNCHANGED <<skillDefinitions, maxSkills, genRoutine, availableSkills>>
    /\ UNCHANGED <<convVars, scoreVars, validationVars, ruleVars, reqVars, hookVars, normVars, totalVars, raceVars, moveVars, playVars>>

\* the while condition routine.length < maxSkills failing
GenFull ==
    /\ genPc = "loop"
    /\ ~(Len(genRoutine) < maxSkills)
    /\ genPc' = "done"
    /\ UNCHANGED <<skillDefinitions, maxSkills, genRoutine, availableSkills>>
    /\ UNCHANGED <<convVars, scoreVars, validationVars, ruleVars, reqVars, hookVars, normVars, totalVars, raceVars, moveVars, playVars>>

GenNext ==
    \/ GenEmptyPool \/ GenFirstStanding \/ GenFirstAny
    \/ GenAppend \/ GenNoCompatible \/ GenFull

GenSpec == GenInit /\ [][GenNext]_vars

----------------------------------------------------------------------------
(* Properties of the converter, checked under ConvSpec *)

Converted == convPc = "done"

LastOf(seq) == seq[Len(seq)]

Within(x, y, tolerance) == Le(RAbs(Sub(x, y)), tolerance)

NetRotation(sk) == Sub(LastOf(sk.positions).rotation, sk.positions[1].rotation)

\* C1: for every definition with flips > 0, the timestamps returned by
\* makeSkillFrames start at exactly 0, end at exactly 1 and never decrease
\* from one keyframe to the next.
C1_TimestampsZeroToOneNonDecreasing ==
    (Converted /\ Gt(definition.flips, Zero)) =>
        /\ skill.timestamps[1] = Zero
        /\ LastOf(skill.timestamps) = One
        /\ \A i \in 2..Len(skill.timestamps) :
              Le(skill.timestamps[i - 1], skill.timestamps[i])

\* C2: for every definition with flips > 0, the twist of the last keyframe
\* equals totalTwists(definition) within 1e-2, on both conversion paths and
\* for every number of twist slots.
C2_FinalTwistIsTotalTwists ==
    (Converted /\ Gt(definition.flips, Zero)) =>
        Within(LastOf(skill.positions).twist, totalTwists(definition), Rat(1, 100))

\* C3: for every non-back definition with flips > 0 converted with incoming
\* twist 0, the last keyframe's rotation minus the first keyframe's rotation
\* equals flips within 0.5, for every starting bed position.
C3_NetRotationIsFlips ==
    (Converted /\ Gt(definition.flips, Zero) /\ ~definition.isBackSkill
       /\ incomingTwist = Zero) =>
        Within(NetRotation(skill), definition.flips, Rat(1, 2))

\* C3 witness: a non-back multi-flip skill starting from the back (offset
\* -1/4) has been converted on the rotating path with incoming twist 0.
C3_Witness ==
    /\ Converted
    /\ ~definition.isBackSkill
    /\ incomingTwist = Zero
    /\ definition.startingPosition = "Back"
    /\ Ge(definition.flips, Rat(7, 4))
    /\ flipNumber(definition) # 0
    /\ Len(skill.positions) >= 5

\* C4: for every non-back definition with flips > 0 converted with default
\* arguments, keyframe rotations never decrease and the last rotation is
\* strictly greater than the first.
C4_RotationMonotonic ==
    (Converted /\ Gt(definition.flips, Zero) /\ ~definition.isBackSkill
       /\ incomingTwist = Zero /\ ~renderProps.defined) =>
        /\ \A i \in 2..Len(skill.positions) :
              Ge(skill.positions[i].rotation, skill.positions[i - 1].rotation)
        /\ Gt(LastOf(skill.positions).rotation, skill.positions[1].rotation)

----------------------------------------------------------------------------
(* Determinism of the converter, checked under DeterminismSpec *)

SameArgumentsAsFirstCall ==
    /\ firstCall # <<>>
    /\ definition = firstCall[1].definition
    /\ incomingTwist = firstCall[1].incomingTwist
    /\ renderProps = firstCall[1].renderProps

----------------------------------------------------------------------------
(* Properties of the scoring engine *)

FreshScore(sk) == calculateDifficultyScore(sk, EmptyCache, minDifficulty).score

\* C6 (CacheSpec): after any sequence of calculateDifficultyScore calls the
\* value returned for a skill, cached or computed, is the value a computation
\* with an empty cache returns for it; two skills with the same cache key
\* have the same uncached score.
C6_CachedScoreIsFreshScore ==
    /\ scoreArg # 0 => scoreResult = FreshScore(scorePool[scoreArg])
    /\ \A i, j \in 1..Len(scorePool) :
          getSkillCacheKey(scorePool[i]) = getSkillCacheKey(scorePool[j])
              => FreshScore(scorePool[i]) = FreshScore(scorePool[j])

\* C6 witness: the second skill was answered from the entry the first skill,
\* a different skill with the same key, had stored.
C6_Witness ==
    /\ scoreArg = 2
    /\ cacheAccess = "hit"
    /\ scorePool[1] # scorePool[2]
    /\ getSkillCacheKey(scorePool[1]) = getSkillCacheKey(scorePool[2])
    /\ Gt(scoreResult, minDifficulty)

RoundedSubScoreSum(sk) ==
    roundToTwo(Add(Add(rotationScore(sk), twistScore(sk)), positionScore(sk)))

\* C7 (ScoreSpec): every calculateDifficultyScore call returns exactly 0 for
\* a skill with flips = 0, totalTwists = 0 and position Straight and leaves
\* the cache untouched; for every other skill it returns the rounded sum of
\* the three sub-scores, raised to MIN_DIFFICULTY when lower, so never less
\* than MIN_DIFFICULTY.
C7_ScoreValue ==
    [][LET sk == scorePool'[scoreArg']
       IN  IF sk.flips = Zero /\ totalTwists(sk) = Zero /\ sk.position = Straight
           THEN /\ scoreResult' = Zero
                /\ cacheAccess' = "none"
                /\ difficultyCache' = difficultyCache
           ELSE /\ scoreResult' = IF Lt(RoundedSubScoreSum(sk), minDifficulty)
                                  THEN minDifficulty ELSE RoundedSubScoreSum(sk)
                /\ Ge(scoreResult', minDifficulty)]_vars

\* C7 witness: a skill other than the straight jump whose sub-scores sum to
\* less than MIN_DIFFICULTY has been scored.
C7_Witness ==
    /\ scoreArg = 1
    /\ ~IsStraightJump(scorePool[1])
    /\ Lt(RoundedSubScoreSum(scorePool[1]), minDifficulty)
    /\ scoreResult = minDifficulty

\* C23: the position sub-score of a skill calculateDifficultyScore has
\* computed is 0 when the position is Tuck, 0 when flips is exactly 1 and the
\* total twist is not 0, and floor(flips) * 0.1 for every other skill, the
\* twisting skills of more than one and less than two flips among them.
C23_PositionScore ==
    (scoreArg # 0 /\ cacheAccess = "miss") =>
        LET sk == scorePool[scoreArg]
        IN  positionScore(sk) =
                IF sk.position = "Tuck" THEN Zero
                ELSE IF sk.flips = One /\ totalTwists(sk) # Zero THEN Zero
                ELSE Mul(IntRat(Floor(sk.flips)), Tenths(1))

----------------------------------------------------------------------------
(* Properties of the routine validator, checked under ValidationSpec *)

Chains(rt, i) == rt[i - 1].endingPosition = rt[i].startingPosition

\* C8: isRoutineValid(routine) is true if and only if every adjacent pair
\* has previous.endingPosition = current.startingPosition; it is true for the
\* empty routine and for every one-skill routine.
C8_ValidIffEveryPairChains ==
    validationPc \in {"validated", "done"} =>
        /\ validResult <=> \A i \in 2..Len(routine) : Chains(routine, i)
        /\ Len(routine) <= 1 => validResult

\* C8 witness: a three-skill routine whose first pair chains and whose second
\* pair does not has been found invalid.
C8_Witness ==
    /\ validationPc = "validated"
    /\ Len(routine) = 3
    /\ Chains(routine, 2)
    /\ ~Chains(routine, 3)
    /\ ~validResult

BrokenPairs == {i \in 2..Len(routine) : ~Chains(routine, i)}

\* the position in the error list of the message for the broken pair i
RankOfPair(i) == Cardinality({j \in BrokenPairs : j <= i})

Mentions(message, text) == \E k \in 1..Len(message) : message[k] = text

\* C9: getRoutineValidationErrors(routine) returns exactly one message per
\* adjacent pair whose positions do not chain, in routine order, each naming
\* both skills and both positions; the list is empty exactly when
\* isRoutineValid(routine) is true, and a two-skill routine with mismatching
\* positions yields exactly one message.
C9_OneMessagePerBrokenPair ==
    validationPc = "done" =>
        /\ Len(errorsResult) = Cardinality(BrokenPairs)
        /\ \A i \in BrokenPairs :
              LET message == errorsResult[RankOfPair(i)]
              IN  /\ Mentions(message, routine[i - 1].name)
                  /\ Mentions(message, routine[i].name)
                  /\ Mentions(message, routine[i - 1].endingPosition)
                  /\ Mentions(message, routine[i].startingPosition)
                  /\ message[2] = routine[i].name
                  /\ message[4] = routine[i - 1].name
        /\ (errorsResult = <<>>) <=> validResult
        /\ (Len(routine) = 2 /\ ~Chains(routine, 2)) => Len(errorsResult) = 1

\* C9 witness: a three-skill routine with two broken pairs, between
\* differently named skills, has produced its error list.
C9_Witness ==
    /\ validationPc = "done"
    /\ Len(routine) = 3
    /\ Cardinality(BrokenPairs) = 2
    /\ routine[1].name # routine[2].name
    /\ Len(errorsResult) = 2

----------------------------------------------------------------------------
(* Properties of generateValidRandomRoutine, checked under GenSpec *)

\* C10: for every pool and every n, n = 0 and pools without a Standing start
\* included, every routine generateValidRandomRoutine(pool, n) can return has
\* length at most n and routine[i].startingPosition =
\* routine[i-1].endingPosition for every i >= 1.
C10_AtMostNAndChained ==
    genPc = "done" =>
        /\ Len(genRoutine) <= maxSkills
        /\ \A i \in 2..Len(genRoutine) : Chains(genRoutine, i)

\* C26: every skill generateValidRandomRoutine places in the routine, the
\* first one included, is removed from the candidate pool, so no name occurs
\* twice in the routine it builds.
C26_NoNameAppendedTwice ==
    genPc \in {"loop", "done"} =>
        /\ \A i \in 1..Len(genRoutine) : \A k \in 1..Len(availableSkills) :
               availableSkills[k].name # genRoutine[i].name
        /\ \A i, j \in 1..Len(genRoutine) :
               genRoutine[i].name = genRoutine[j].name => i = j

----------------------------------------------------------------------------
(* generateRequirementCompliantRoutine(skillDefinitions, requirement,       *)
(* maxAttempts): one action per branch of its body and of the bodies of     *)
(* generateSpecificRoutine and generateConstrainedRandomRoutine; the calls  *)
(* of generateValidRandomRoutine run the actions of that function.  Every   *)
(* \E is a value Math.random can select.                                    *)

\* maxAttempts is read only on the path without skill-at-index rules
ReqInit ==
    /\ skillDefinitions \in ReqPools
    /\ \/ /\ requirement \in {NullRequirement}
                               \cup {Requirement(rules) : rules \in PlainRuleLists}
          /\ maxAttempts \in 0..MaxAttempts
       \/ /\ requirement \in {Requirement(rules) : rules \in SpecificRuleLists}
          /\ maxAttempts = MaxAttempts
    /\ attempt = 0
    /\ relaxedMode = FALSE
    /\ constrainedRoutine = <<>>
    /\ usedCombinations = {}
    /\ routineTemplate = <<>>
    /\ fillIndex = 0
    /\ reqResult = <<>>
    /\ reqPc = "start"
    /\ maxSkills = 0
    /\ genRoutine = <<>>
    /\ availableSkills = <<>>
    /\ genPc = "idle"
    /\ scorePool = <<>>
    /\ minDifficulty = Rat(1, 10)
    /\ difficultyCache = EmptyCache
    /\ scoreArg = 0
    /\ scoreResult = Zero
    /\ cacheAccess = "none"
    /\ firstCall = <<>>
    /\ conversions = 0
    /\ ConvIdle /\ ValidationIdle /\ RuleIdle /\ HookIdle /\ NormIdle /\ TotalIdle /\ RaceIdle /\ MoveIdle /\ PlayIdle

\* the call generateValidRandomRoutine(skillDefinitions, n)
CallValidRandom(n) ==
    /\ maxSkills' = n
    /\ genRoutine' = <<>>
    /\ availableSkills' = <<>>
    /\ genPc' = "start"
    /\ UNCHANGED skillDefinitions

\* if (!requirement) return generateValidRandomRoutine(skillDefinitions, 10);
ReqNull ==
    /\ reqPc = "start"
    /\ requirement = NullRequirement
    /\ CallValidRandom(defaultLength)
    /\ reqPc' = "tailCall"
    /\ UNCHANGED <<requirement, maxAttempts, attempt, relaxedMode, constrainedRoutine,
                   usedCombinations, routineTemplate, fillIndex, reqResult>>
    /\ UNCHANGED <<convVars, scoreVars, validationVars, ruleVars, hookVars, normVars, totalVars, raceVars, moveVars, playVars>>

\* the requirement has skill-at-index rules: generateSpecificRoutine up to
\* the end of the loop that places the specific skills
SpecificPlace ==
    /\ reqPc = "start"
    /\ requirement # NullRequirement
    /\ Len(specificSkillRules(requirement.rules)) > 0
    /\ routineTemplate' = initialTemplate(skillDefinitions, requirement)
    /\ fillIndex' = 0
    /\ reqPc' = "fill"
    /\ UNCHANGED <<requirement, maxAttempts, attempt, relaxedMode, constrainedRoutine,
                   usedCombinations, reqResult>>
    /\ UNCHANGED <<convVars, scoreVars, validationVars, genVars, ruleVars, hookVars, normVars, totalVars, raceVars, moveVars, playVars>>

\* an iteration of the fill loop on an empty slot that has compatible skills
SpecificFill ==
    /\ reqPc = "fill"
    /\ fillIndex < Len(routineTemplate)
    /\ routineTemplate[fillIndex + 1] = NullSlot
    /\ \E randomSkill \in Elements(compatibleForSlot(skillDefinitions, routineTemplate,
                                                     fillIndex)) :
         \E placed \in applyRandomPosition(randomSkill) :
             routineTemplate' = [routineTemplate EXCEPT ![fillIndex + 1] = placed]
    /\ fillIndex' = fillIndex + 1
    /\ UNCHANGED <<requirement, maxAttempts, attempt, relaxedMode, constrainedRoutine,
                   usedCombinations, reqResult, reqPc>>
    /\ UNCHANGED <<convVars, scoreVars, validationVars, genVars, ruleVars, hookVars, normVars, totalVars, raceVars, moveVars, playVars>>

\* an iteration of the fill loop on a slot that holds a specific skill, or on
\* an empty slot no skill is compatible with
SpecificSkip ==
    /\ reqPc = "fill"
    /\ fillIndex < Len(routineTemplate)
    /\ \/ routineTemplate[fillIndex + 1] # NullSlot
       \/ Len(compatibleForSlot(skillDefinitions, routineTemplate, fillIndex)) = 0
    /\ fillIndex' = fillIndex + 1
    /\ UNCHANGED <<requirement, maxAttempts, attempt, relaxedMode, constrainedRoutine,
                   usedCombinations, routineTemplate, reqResult, reqPc>>
    /\ UNCHANGED <<convVars, scoreVars, validationVars, genVars, ruleVars, hookVars, normVars, totalVars, raceVars, moveVars, playVars>>

\* finalRoutine.length < Math.min(3, targetLength)
SpecificTooShort ==
    LET targetLength == Len(routineTemplate)
    IN  Len(finalRoutineOf(routineTemplate)) <
            (IF targetLength < minimumSpecificLength THEN targetLength
             ELSE minimumSpecificLength)

\* the end of generateSpecificRoutine returning finalRoutine
SpecificReturn ==
    /\ reqPc = "fill"
    /\ fillIndex >= Len(routineTemplate)
    /\ ~SpecificTooShort
    /\ reqResult' = finalRoutineOf(routineTemplate)
    /\ reqPc' = "done"
    /\ UNCHANGED <<requirement, maxAttempts, attempt, relaxedMode, constrainedRoutine,
                   usedCombinations, routineTemplate, fillIndex>>
    /\ UNCHANGED <<convVars, scoreVars, validationVars, genVars, ruleVars, hookVars, normVars, totalVars, raceVars, moveVars, playVars>>

\* the end of generateSpecificRoutine falling back to
\* generateValidRandomRoutine(skillDefinitions, targetLength)
SpecificFallback ==
    /\ reqPc = "fill"
    /\ fillIndex >= Len(routineTemplate)
    /\ SpecificTooShort
    /\ CallValidRandom(Len(routineTemplate))
    /\ reqPc' = "tailCall"
    /\ UNCHANGED <<requirement, maxAttempts, attempt, relaxedMode, constrainedRoutine,
                   usedCombinations, routineTemplate, fillIndex, reqResult>>
    /\ UNCHANGED <<convVars, scoreVars, validationVars, ruleVars, hookVars, normVars, totalVars, raceVars, moveVars, playVars>>

\* generateValidRandomRoutine returning to a return statement
TailCallReturn ==
    /\ reqPc = "tailCall"
    /\ genPc = "done"
    /\ reqResult' = genRoutine
    /\ reqPc' = "done"
    /\ genPc' = "idle"
    /\ UNCHANGED <<skillDefinitions, maxSkills, genRoutine, availableSkills>>
    /\ UNCHANGED <<requirement, maxAttempts, attempt, relaxedMode, constrainedRoutine,
                   usedCombinations, routineTemplate, fillIndex>>
    /\ UNCHANGED <<convVars, scoreVars, validationVars, ruleVars, hookVars, normVars, totalVars, raceVars, moveVars, playVars>>

\* no skill-at-index rule: the attempt loop is entered with attempt = 0
ReqEnterLoop ==
    /\ reqPc = "start"
    /\ requirement # NullRequirement
    /\ Len(specificSkillRules(requirement.rules)) = 0
    /\ attempt' = 0
    /\ reqPc' = "attempt"
    /\ UNCHANGED <<requirement, maxAttempts, relaxedMode, constrainedRoutine,
                   usedCombinations, routineTemplate, fillIndex, reqResult>>
    /\ UNCHANGED <<convVars, scoreVars, validationVars, genVars, ruleVars, hookVars, normVars, totalVars, raceVars, moveVars, playVars>>

\* attempt < maxAttempts: generateConstrainedRandomRoutine(skillDefinitions,
\* requirement) is called
AttemptBegin ==
    /\ reqPc = "attempt"
    /\ attempt < maxAttempts
    /\ relaxedMode' = FALSE
    /\ constrainedRoutine' = <<>>
    /\ usedCombinations' = {}
    /\ reqPc' = "constrainedStart"
    /\ UNCHANGED <<requirement, maxAttempts, attempt, routineTemplate, fillIndex,
                   reqResult>>
    /\ UNCHANGED <<convVars, scoreVars, validationVars, genVars, ruleVars, hookVars, normVars, totalVars, raceVars, moveVars, playVars>>

\* the loop is over: generateConstrainedRandomRoutine(skillDefinitions,
\* requirement, true) is called
RelaxedBegin ==
    /\ reqPc = "attempt"
    /\ ~(attempt < maxAttempts)
    /\ relaxedMode' = TRUE
    /\ constrainedRoutine' = <<>>
    /\ usedCombinations' = {}
    /\ reqPc' = "constrainedStart"
    /\ UNCHANGED <<requirement, maxAttempts, attempt, routineTemplate, fillIndex,
                   reqResult>>
    /\ UNCHANGED <<convVars, scoreVars, validationVars, genVars, ruleVars, hookVars, normVars, totalVars, raceVars, moveVars, playVars>>

\* availableSkills of the running generateConstrainedRandomRoutine call
ConstrainedAvailable ==
    constrainedAvailableSkills(skillDefinitions, maxElementDifficultyOf(requirement),
                               relaxedMode, minDifficulty)

\* no available skill starts Standing: return
\* generateValidRandomRoutine(skillDefinitions, Math.min(targetLength, 5))
ConstrainedNoStanding ==
    /\ reqPc = "constrainedStart"
    /\ Len(StartsFrom(ConstrainedAvailable, "Standing")) = 0
    /\ CallValidRandom(IF getMaxSkillsFromRequirement(requirement) < relaxedFallbackLength
                       THEN getMaxSkillsFromRequirement(requirement)
                       ELSE relaxedFallbackLength)
    /\ reqPc' = "constrainedCall"
    /\ UNCHANGED <<requirement, maxAttempts, attempt, relaxedMode, constrainedRoutine,
                   usedCombinations, routineTemplate, fillIndex, reqResult>>
    /\ UNCHANGED <<convVars, scoreVars, validationVars, ruleVars, hookVars, normVars, totalVars, raceVars, moveVars, playVars>>

\* generateValidRandomRoutine returning to generateConstrainedRandomRoutine,
\* which returns its result
ConstrainedCallReturn ==
    /\ reqPc = "constrainedCall"
    /\ genPc = "done"
    /\ constrainedRoutine' = genRoutine
    /\ reqPc' = "generated"
    /\ genPc' = "idle"
    /\ UNCHANGED <<skillDefinitions, maxSkills, genRoutine, availableSkills>>
    /\ UNCHANGED <<requirement, maxAttempts, attempt, relaxedMode, usedCombinations,
                   routineTemplate, fillIndex, reqResult>>
    /\ UNCHANGED <<convVars, scoreVars, validationVars, ruleVars, hookVars, normVars, totalVars, raceVars, moveVars, playVars>>

\* usedCombinations after the skill placed is pushed
UsedAfter(placed) ==
    IF hasNoDuplicates(requirement)
    THEN usedCombinations \cup {combinationKey(placed.name, placed.position)}
    ELSE usedCombinations

\* the first skill, from the available skills that start Standing
ConstrainedFirst ==
    /\ reqPc = "constrainedStart"
    /\ \E firstSkill \in Elements(StartsFrom(ConstrainedAvailable, "Standing")) :
         \E placed \in applyConstrainedPosition(firstSkill,
                           maxElementDifficultyOf(requirement), relaxedMode, {},
                           minDifficulty) :
             /\ constrainedRoutine' = <<placed>>
             /\ usedCombinations' = UsedAfter(placed)
    /\ reqPc' = "constrainedLoop"
    /\ UNCHANGED <<requirement, maxAttempts, attempt, relaxedMode, routineTemplate,
                   fillIndex, reqResult>>
    /\ UNCHANGED <<convVars, scoreVars, validationVars, genVars, ruleVars, hookVars, normVars, totalVars, raceVars, moveVars, playVars>>

\* routine.length < targetLength && attempts < maxSkillAttempts; attempts is
\* routine.length - 1 at every test of the condition
ConstrainedContinue ==
    /\ Len(constrainedRoutine) < getMaxSkillsFromRequirement(requirement)
    /\ Len(constrainedRoutine) - 1 < maxSkillAttempts

\* compatibleSkills of the iteration the while loop is about to run
ConstrainedCompatible ==
    constrainedCompatibleSkills(ConstrainedAvailable,
                                constrainedRoutine[Len(constrainedRoutine)],
                                hasNoDuplicates(requirement), usedCombinations)

\* one iteration of the while loop that pushes a compatible skill
ConstrainedAppend ==
    /\ reqPc = "constrainedLoop"
    /\ ConstrainedContinue
    /\ \E nextSkill \in Elements(ConstrainedCompatible) :
         \E placed \in applyConstrainedPosition(nextSkill,
                           maxElementDifficultyOf(requirement), relaxedMode,
                           usedCombinations, minDifficulty) :
             /\ constrainedRoutine' = Append(constrainedRoutine, placed)
             /\ usedCombinations' = UsedAfter(placed)
    /\ UNCHANGED <<requirement, maxAttempts, attempt, relaxedMode, routineTemplate,
                   fillIndex, reqResult, reqPc>>
    /\ UNCHANGED <<convVars, scoreVars, validationVars, genVars, ruleVars, hookVars, normVars, totalVars, raceVars, moveVars, playVars>>

\* the iteration that finds no compatible skill and breaks
ConstrainedBreak ==
    /\ reqPc = "constrainedLoop"
    /\ ConstrainedContinue
    /\ Len(ConstrainedCompatible) = 0
    /\ reqPc' = "generated"
    /\ UNCHANGED <<requirement, maxAttempts, attempt, relaxedMode, constrainedRoutine,
                   usedCombinations, routineTemplate, fillIndex, reqResult>>
    /\ UNCHANGED <<convVars, scoreVars, validationVars, genVars, ruleVars, hookVars, normVars, totalVars, raceVars, moveVars, playVars>>

\* the while condition failing
ConstrainedFull ==
    /\ reqPc = "constrainedLoop"
    /\ ~ConstrainedContinue
    /\ reqPc' = "generated"
    /\ UNCHANGED <<requirement, maxAttempts, attempt, relaxedMode, constrainedRoutine,
                   usedCombinations, routineTemplate, fillIndex, reqResult>>
    /\ UNCHANGED <<convVars, scoreVars, validationVars, genVars, ruleVars, hookVars, normVars, totalVars, raceVars, moveVars, playVars>>

\* the test of the attempt's routine looking at the first rule only
AttemptCompliant_FirstRuleOnly ==
    validator(requirement.rules[1], constrainedRoutine, minDifficulty, tripleThreshold)

\* validationResults.every((result) => result.passed) of the routine an
\* attempt generated
AttemptCompliant ==
    AllPassed(constrainedRoutine, requirement.rules, minDifficulty, tripleThreshold)

\* the attempt's routine passes every rule: it is returned
AttemptPassed ==
    /\ reqPc = "generated"
    /\ ~relaxedMode
    /\ AttemptCompliant = TRUE
    /\ reqResult' = constrainedRoutine
    /\ reqPc' = "done"
    /\ UNCHANGED <<requirement, maxAttempts, attempt, relaxedMode, constrainedRoutine,
                   usedCombinations, routineTemplate, fillIndex>>
    /\ UNCHANGED <<convVars, scoreVars, validationVars, genVars, ruleVars, hookVars, normVars, totalVars, raceVars, moveVars, playVars>>

\* the attempt's routine fails a rule: attempt++
AttemptFailed ==
    /\ reqPc = "generated"
    /\ ~relaxedMode
    /\ AttemptCompliant = FALSE
    /\ attempt' = attempt + 1
    /\ reqPc' = "attempt"
    /\ UNCHANGED <<requirement, maxAttempts, relaxedMode, constrainedRoutine,
                   usedCombinations, routineTemplate, fillIndex, reqResult>>
    /\ UNCHANGED <<convVars, scoreVars, validationVars, genVars, ruleVars, hookVars, normVars, totalVars, raceVars, moveVars, playVars>>

\* return relaxedRoutine
RelaxedReturn ==
    /\ reqPc = "generated"
    /\ relaxedMode
    /\ reqResult' = constrainedRoutine
    /\ reqPc' = "done"
    /\ UNCHANGED <<requirement, maxAttempts, attempt, relaxedMode, constrainedRoutine,
                   usedCombinations, routineTemplate, fillIndex>>
    /\ UNCHANGED <<convVars, scoreVars, validationVars, genVars, ruleVars, hookVars, normVars, totalVars, raceVars, moveVars, playVars>>

ReqNext ==
    \/ ReqNull \/ SpecificPlace \/ SpecificFill \/ SpecificSkip \/ SpecificReturn
    \/ SpecificFallback \/ TailCallReturn \/ ReqEnterLoop \/ AttemptBegin
    \/ RelaxedBegin \/ ConstrainedNoStanding \/ ConstrainedCallReturn
    \/ ConstrainedFirst \/ ConstrainedAppend \/ ConstrainedBreak \/ ConstrainedFull
    \/ AttemptPassed \/ AttemptFailed \/ RelaxedReturn
    \/ GenEmptyPool \/ GenFirstStanding \/ GenFirstAny
    \/ GenAppend \/ GenNoCompatible \/ GenFull

ReqSpec == ReqInit /\ [][ReqNext]_vars

\* the calls on the empty pool, on the pools of one skill and on the pools of
\* distinct skills, whose requirement has no max-element-difficulty rule
ReqFairInit ==
    /\ ReqInit
    /\ Len(skillDefinitions) <= 1 \/ skillDefinitions \in DistinctPools \cup {GapPool}
    /\ requirement # NullRequirement => IsNaN(maxElementDifficultyOf(requirement))

\* the call runs to completion: the function is synchronous code that no
\* other code interrupts
ReqFairSpec == ReqFairInit /\ [][ReqNext]_vars /\ WF_vars(ReqNext)

----------------------------------------------------------------------------
(* One call of a rule's validator on an arbitrary routine *)

RuleInit ==
    /\ rule \in RuleChoices
    /\ ruleRoutine \in RuleRoutines
    /\ passed = TRUE
    /\ tripleThreshold \in TripleThresholdChoices
    /\ rulePc = "ready"
    /\ scorePool = <<>>
    /\ minDifficulty \in MinDifficultyChoices
    /\ difficultyCache = EmptyCache
    /\ scoreArg = 0
    /\ scoreResult = Zero
    /\ cacheAccess = "none"
    /\ firstCall = <<>>
    /\ conversions = 0
    /\ ConvIdle /\ ValidationIdle /\ GenIdle /\ ReqIdle /\ HookIdle /\ NormIdle /\ TotalIdle /\ RaceIdle /\ MoveIdle /\ PlayIdle

\* rule.validator(routine) on the empty routine
ValidateEmpty ==
    /\ rulePc = "ready"
    /\ Len(ruleRoutine) = 0
    /\ passed' = validator(rule, ruleRoutine, minDifficulty, tripleThreshold)
    /\ rulePc' = "done"
    /\ UNCHANGED <<rule, ruleRoutine, tripleThreshold>>
    /\ UNCHANGED <<convVars, scoreVars, validationVars, genVars, reqVars, hookVars, normVars, totalVars, raceVars, moveVars, playVars>>

\* rule.validator(routine) on a routine with skills
ValidateSkills ==
    /\ rulePc = "ready"
    /\ Len(ruleRoutine) > 0
    /\ passed' = validator(rule, ruleRoutine, minDifficulty, tripleThreshold)
    /\ rulePc' = "done"
    /\ UNCHANGED <<rule, ruleRoutine, tripleThreshold>>
    /\ UNCHANGED <<convVars, scoreVars, validationVars, genVars, reqVars, hookVars, normVars, totalVars, raceVars, moveVars, playVars>>

RuleNext == ValidateEmpty \/ ValidateSkills

RuleSpec == RuleInit /\ [][RuleNext]_vars

----------------------------------------------------------------------------
(* Properties of the validators, checked under RuleSpec *)

ContentKinds ==
    {"startPosition", "endPosition", "skillAtIndex", "includeSkill", "minFlips", "minTwists"}

VacuousKinds ==
    {"noDuplicates", "maxSkills", "maxElementDifficulty", "maxNonSommersaults",
     "maxElementsWithMinRotation"}

\* C17: on the empty routine every validator built by COMMON_VALIDATORS
\* returns a boolean and does not throw; startPosition, endPosition,
\* skillAtIndex, includeSkill, minFlips, minTwists and minSkills(n) with n > 0
\* return false; noDuplicates, maxSkills, maxElementDifficulty,
\* maxNonSommersaults and maxElementsWithMinRotation return true.
C17_ValidatorsOnEmptyRoutine ==
    (rulePc = "done" /\ ruleRoutine = <<>>) =>
        /\ passed \in BOOLEAN
        /\ rule.kind \in ContentKinds => passed = FALSE
        /\ (rule.kind = "minSkills" /\ rule.count > 0) => passed = FALSE
        /\ rule.kind \in VacuousKinds => passed = TRUE

\* C17 witness: startPosition was validated on the empty routine and failed.
C17_Witness ==
    /\ rulePc = "done"
    /\ ruleRoutine = <<>>
    /\ rule.kind = "startPosition"
    /\ passed = FALSE

\* the window of the routine that starts at the 0-based index s is the
\* sequence of the rule: names equal, positions equal unless "Free"
WindowIsSequence(s) ==
    \A i \in 1..Len(rule.skillNames) :
        /\ ruleRoutine[s + i].name = rule.skillNames[i]
        /\ rule.positions[i] = "Free" \/ ruleRoutine[s + i].position = rule.positions[i]

\* C25: includesSequence(names, positions).validator(routine) is true if
\* and only if names and positions have equal length and some window of
\* consecutive skills of the routine has the names, and the positions that
\* are not "Free", of the sequence; a routine shorter than the sequence
\* never matches.
C25_IncludesSequenceIffContiguousWindow ==
    (rulePc = "done" /\ rule.kind = "includesSequence") =>
        /\ passed = (/\ Len(rule.skillNames) = Len(rule.positions)
                     /\ \E s \in 0..(Len(ruleRoutine) - Len(rule.skillNames)) :
                            WindowIsSequence(s))
        /\ Len(ruleRoutine) < Len(rule.skillNames) => passed = FALSE

\* C25 witness: a sequence of two skills was found in a longer routine at a
\* window that is not the first.
C25_Witness ==
    /\ rulePc = "done"
    /\ rule.kind = "includesSequence"
    /\ Len(rule.skillNames) = 2
    /\ Len(ruleRoutine) = 3
    /\ ruleRoutine[1].name # rule.skillNames[1]
    /\ passed = TRUE

----------------------------------------------------------------------------
(* Properties of generateRequirementCompliantRoutine, checked under ReqSpec *)

Returned == reqPc = "done"

\* C11: for every pool and every requirement (null, with skill-at-index
\* rules, or without them), every routine
\* generateRequirementCompliantRoutine can return has
\* routine[i].startingPosition = routine[i-1].endingPosition for every
\* i >= 1, routines built from a fixed template and routines of the relaxed
\* fallback included.
C11_ReturnedRoutineChains ==
    Returned => \A i \in 2..Len(reqResult) : Chains(reqResult, i)

HasSkillAtIndexRules ==
    requirement # NullRequirement /\ Len(specificSkillRules(requirement.rules)) > 0

HasPlainRules ==
    requirement # NullRequirement /\ Len(specificSkillRules(requirement.rules)) = 0

NoRepeatedCombination(rt) ==
    \A i, j \in 1..Len(rt) :
        (rt[i].name = rt[j].name /\ rt[i].position = rt[j].position) => i = j

DistinctCombinations(pool) ==
    \A i, j \in 1..Len(pool) :
        (pool[i].name = pool[j].name /\ pool[i].position = pool[j].position) => i = j

\* the scenario of C12 at the scale of the model: exactSkills(2) with
\* noDuplicates() and a pool of three skills of distinct (name, position)
C12Scenario ==
    /\ requirement = Requirement(<<exactSkills(2), noDuplicates>>)
    /\ Len(skillDefinitions) >= 3
    /\ DistinctCombinations(skillDefinitions)

StandingToStanding(pool) ==
    \A i \in 1..Len(pool) :
        pool[i].startingPosition = "Standing" /\ pool[i].endingPosition = "Standing"

C13_AlwaysReturnsAndEmptyForEmptyPool ==
    /\ <>Returned
    /\ []((Returned /\ Len(skillDefinitions) = 0) => reqResult = <<>>)

\* C13 witness: with a requirement no routine satisfies (exactly 1 skill and
\* at least 2) every attempt failed and the relaxed fallback returned a
\* routine.
C13_Witness ==
    /\ Returned
    /\ requirement = Requirement(<<exactSkills(1), minSkills(2)>>)
    /\ attempt = maxAttempts
    /\ maxAttempts = MaxAttempts
    /\ relaxedMode
    /\ Len(reqResult) = 1

\* C14: for a requirement with no skill-at-index rule the attempts are made
\* one after another: the routine of the first attempt that passes every
\* rule is returned and no attempt follows it; the relaxed-mode generation
\* starts only after exactly maxAttempts attempts have failed, runs once,
\* and its result is returned without being validated.
C14_FirstSuccessWinsThenRelaxed ==
    [][HasPlainRules =>
          /\ (reqPc = "generated" /\ ~relaxedMode
                 /\ AllPassed(constrainedRoutine, requirement.rules, minDifficulty,
                              tripleThreshold))
                => (reqPc' = "done" /\ reqResult' = constrainedRoutine
                       /\ attempt' = attempt)
          /\ (reqPc = "generated" /\ ~relaxedMode
                 /\ ~AllPassed(constrainedRoutine, requirement.rules, minDifficulty,
                               tripleThreshold))
                => (reqPc' = "attempt" /\ attempt' = attempt + 1)
          /\ (reqPc = "attempt" /\ reqPc' = "constrainedStart")
                => (relaxedMode' <=> attempt = maxAttempts)
          /\ attempt' <= maxAttempts
          /\ (reqPc = "generated" /\ relaxedMode)
                => (reqPc' = "done" /\ reqResult' = constrainedRoutine)
          /\ reqPc = "done" => reqPc' = "done"]_vars

\* C14 witness: maxAttempts attempts failed and the relaxed generation
\* returned a routine that fails a rule of the requirement.
C14_Witness ==
    /\ Returned
    /\ HasPlainRules
    /\ relaxedMode
    /\ maxAttempts = MaxAttempts
    /\ attempt = maxAttempts
    /\ Len(reqResult) > 0
    /\ ~AllPassed(reqResult, requirement.rules, minDifficulty, tripleThreshold)

\* C20: for a requirement with skill-at-index rules the returned routine
\* has, for every rule skillAtIndex(i, name, position) with i below the
\* target length and a pool skill named name, that name at index i, and that
\* position there when it is one of the skill's possiblePositions, whether
\* or not the rule was built with a position.
C20_SpecificSkillsAtTheirIndices ==
    (Returned /\ HasSkillAtIndexRules) =>
        \A k \in 1..Len(requirement.rules) :
            LET rl == requirement.rules[k]
            IN  (/\ rl.kind = "skillAtIndex"
                 /\ rl.index < specificTargetLength(requirement)
                 /\ FindByName(skillDefinitions, rl.skillName) # 0)
                => /\ Len(reqResult) > rl.index
                   /\ reqResult[rl.index + 1].name = rl.skillName
                   /\ Includes(skillDefinitions[FindByName(skillDefinitions,
                                    rl.skillName)].possiblePositions, rl.position)
                         => reqResult[rl.index + 1].position = rl.position

\* C21: when the requirement has the no-duplicates rule and a skill of the
\* pool starts Standing, the routine generateConstrainedRandomRoutine built,
\* in normal or relaxed mode, holds no two elements of the same
\* (name, position), whatever the default positions of the pool's skills.
C21_ConstrainedRoutineHasNoRepeat ==
    (/\ reqPc = "generated"
     /\ requirement # NullRequirement
     /\ hasNoDuplicates(requirement)
     /\ Len(StartsFrom(skillDefinitions, "Standing")) > 0)
    => NoRepeatedCombination(constrainedRoutine)

----------------------------------------------------------------------------
(* Properties of the rotation direction, checked under TwistSpec and        *)
(* ConvSpec                                                                 *)

Sign(x) == IF Gt(x, Zero) THEN 1 ELSE IF Lt(x, Zero) THEN -1 ELSE 0

\* -1 for a back skill, negated again exactly when floor(2 * twist) is odd
DirectionOf(isBack, twist) ==
    LET base == IF isBack THEN -1 ELSE 1
    IN  IF Floor(Mul(twist, Rat(2, 1))) % 2 = 1 THEN -base ELSE base

Rotating == Converted /\ Gt(definition.flips, Zero) /\ flipNumber(definition) # 0

\* C15 (TwistSpec): for every skill with flips > 0 converted on the rotating
\* path, the rotation multiplier is -1 for a back skill, negated again
\* exactly when floor(2 * incomingTwist) is odd, the net rotation (last
\* keyframe rotation minus first) has the sign of that multiplier, and the
\* net rotation with incoming twist 0.5 has the sign opposite to that of the
\* net rotation with incoming twist 0.
C15_TwistReversesRotation ==
    Rotating =>
        /\ getRotationMultiplier(definition.isBackSkill, incomingTwist)
              = DirectionOf(definition.isBackSkill, incomingTwist)
        /\ Sign(NetRotation(skill)) = DirectionOf(definition.isBackSkill, incomingTwist)
        /\ incomingTwist = Half =>
              /\ Sign(NetRotation(skill)) # 0
              /\ Sign(NetRotation(skill))
                    = -Sign(NetRotation(makeSkillFrames(definition, Zero, renderProps)))

\* C15 witness: a forward double flip converted with incoming twist 0.5 has
\* a negative net rotation.
C15_Witness ==
    /\ Rotating
    /\ ~definition.isBackSkill
    /\ incomingTwist = Half
    /\ definition.flips = Rat(2, 1)
    /\ Sign(NetRotation(skill)) = -1

\* the conversion of the definition that differs only in isBackSkill
Counterpart ==
    makeSkillFrames([definition EXCEPT !.isBackSkill = ~@], incomingTwist, renderProps)

\* C16 (ConvSpec): for two definitions that differ only in isBackSkill,
\* makeSkillFrames gives net rotations of equal magnitude and opposite sign
\* and the same final twist.
C16_BackSkillMirrorsRotationKeepsTwist ==
    Converted =>
        /\ NetRotation(skill) = Neg(NetRotation(Counterpart))
        /\ LastOf(skill.positions).twist = LastOf(Counterpart.positions).twist

----------------------------------------------------------------------------
(* useSkillDefinitions: the effect that loads the sources, run once         *)

HookInit ==
    /\ sources \in SourceLists
    /\ served \in {answers \in SeqsUpTo(ServedChoices, MaxSources) :
                      Len(answers) = Len(sources)}
    /\ settled = <<>>
    /\ hookSkillDefinitions = <<>>
    /\ selectedPositions = <<>>
    /\ loading = FALSE
    /\ error = NullError
    /\ hookPc = "mounted"
    /\ ConvIdle /\ ScoreIdle /\ ValidationIdle /\ GenIdle /\ RuleIdle /\ ReqIdle /\ NormIdle /\ TotalIdle /\ RaceIdle /\ MoveIdle /\ PlayIdle

\* if (sources.length === 0): the two states are emptied and the effect
\* returns
EffectNoSources ==
    /\ hookPc = "mounted"
    /\ Len(sources) = 0
    /\ hookSkillDefinitions' = <<>>
    /\ selectedPositions' = <<>>
    /\ hookPc' = "done"
    /\ UNCHANGED <<sources, served, settled, loading, error>>
    /\ UNCHANGED <<convVars, scoreVars, validationVars, genVars, ruleVars, reqVars, normVars, totalVars, raceVars, moveVars, playVars>>

\* loadSkillsFromSources up to await Promise.allSettled(promises)
EffectStart ==
    /\ hookPc = "mounted"
    /\ Len(sources) # 0
    /\ loading' = TRUE
    /\ error' = NullError
    /\ settled' = [i \in 1..Len(sources) |-> "pending"]
    /\ hookPc' = "loading"
    /\ UNCHANGED <<sources, served, hookSkillDefinitions, selectedPositions>>
    /\ UNCHANGED <<convVars, scoreVars, validationVars, genVars, ruleVars, reqVars, normVars, totalVars, raceVars, moveVars, playVars>>

\* the promise of source i ends in state outcome
Settle(i, outcome) ==
    /\ hookPc = "loading"
    /\ settled[i] = "pending"
    /\ settled' = [settled EXCEPT ![i] = outcome]
    /\ UNCHANGED <<sources, served, hookSkillDefinitions, selectedPositions, loading,
                   error, hookPc>>
    /\ UNCHANGED <<convVars, scoreVars, validationVars, genVars, ruleVars, reqVars, normVars, totalVars, raceVars, moveVars, playVars>>

\* the body of a source is an array: return { source, skills: data }
FetchFulfilled ==
    \E i \in 1..Len(sources) : served[i].kind = "ok" /\ Settle(i, "fulfilled")

\* await fetch(url) throws
FetchRejected ==
    \E i \in 1..Len(sources) : served[i].kind = "rejected" /\ Settle(i, "rejected")

\* if (!response.ok) throw
ResponseNotOk ==
    \E i \in 1..Len(sources) : served[i].kind = "notOk" /\ Settle(i, "rejected")

\* if (!Array.isArray(data)) throw
BodyNotArray ==
    \E i \in 1..Len(sources) : served[i].kind = "notArray" /\ Settle(i, "rejected")

\* the continuation of await Promise.allSettled(promises), the finally
\* block included
LoadSettled ==
    /\ hookPc = "loading"
    /\ \A i \in 1..Len(sources) : settled[i] # "pending"
    /\ hookSkillDefinitions' = uniqueSkills(allSkills(served, settled, 1))
    /\ selectedPositions' = defaultPositions(uniqueSkills(allSkills(served, settled, 1)))
    /\ error' = errorAfterLoad(sources, settled)
    /\ loading' = FALSE
    /\ hookPc' = "done"
    /\ UNCHANGED <<sources, served, settled>>
    /\ UNCHANGED <<convVars, scoreVars, validationVars, genVars, ruleVars, reqVars, normVars, totalVars, raceVars, moveVars, playVars>>

HookNext ==
    \/ EffectNoSources \/ EffectStart \/ FetchFulfilled \/ FetchRejected
    \/ ResponseNotOk \/ BodyNotArray \/ LoadSettled

HookSpec == HookInit /\ [][HookNext]_vars

----------------------------------------------------------------------------
(* Properties of useSkillDefinitions, checked under HookSpec *)

HookDone == hookPc = "done"

SamePair(a, b) == a.name = b.name /\ a.position = b.position

\* the skills of the sources whose body is an array, from the 1-based index
\* i on, in the order of the sources
RECURSIVE ArraysFrom(_)
ArraysFrom(i) ==
    IF i > Len(served) THEN <<>>
    ELSE (IF served[i].kind = "ok" THEN served[i].skills ELSE <<>>) \o ArraysFrom(i + 1)

\* the skills of a list that no earlier skill of the list has the name and
\* position of, in the order of the list
RECURSIVE FirstOccurrences(_, _)
FirstOccurrences(list, i) ==
    IF i > Len(list) THEN <<>>
    ELSE (IF \A j \in 1..(i - 1) : ~SamePair(list[j], list[i])
          THEN <<list[i]>> ELSE <<>>)
             \o FirstOccurrences(list, i + 1)

\* C18: after the load has finished skillDefinitions has no two skills with
\* the same name and position; of the loaded skills that share a name and
\* position the first in source order is the one kept, and the kept skills
\* are in load order.
C18_NoDuplicateFirstKeptInLoadOrder ==
    HookDone =>
        /\ \A i, j \in 1..Len(hookSkillDefinitions) :
              SamePair(hookSkillDefinitions[i], hookSkillDefinitions[j]) => i = j
        /\ hookSkillDefinitions = FirstOccurrences(ArraysFrom(1), 1)

\* C18 witness: two sources loaded, the second repeats a name and position
\* of the first with other flips, and the skill of the first source is the
\* one kept, ahead of a skill of the second source.
C18_Witness ==
    /\ HookDone
    /\ Len(sources) = 2
    /\ served[1].kind = "ok" /\ served[2].kind = "ok"
    /\ Len(served[1].skills) = 1 /\ Len(served[2].skills) = 2
    /\ SamePair(served[1].skills[1], served[2].skills[1])
    /\ served[1].skills[1].flips # served[2].skills[1].flips
    /\ ~SamePair(served[2].skills[1], served[2].skills[2])
    /\ hookSkillDefinitions = <<served[1].skills[1], served[2].skills[2]>>

\* the sources whose fetch is rejected, whose response is not OK or whose
\* body is not an array, from the 1-based index i on
RECURSIVE FailingFrom(_)
FailingFrom(i) ==
    IF i > Len(served) THEN <<>>
    ELSE (IF served[i].kind # "ok" THEN <<sources[i]>> ELSE <<>>) \o FailingFrom(i + 1)

\* C19: when some sources fail to load (rejected fetch, response not OK,
\* body not an array) the skills of every source that loaded are still put
\* in skillDefinitions, error names exactly the failed sources and loading
\* is false again; when no source fails error stays null.
C19_FailedSourcesNamedOthersLoaded ==
    HookDone =>
        /\ \A i \in 1..Len(sources) :
              served[i].kind = "ok" =>
                 \A k \in 1..Len(served[i].skills) :
                    \E r \in 1..Len(hookSkillDefinitions) :
                        SamePair(hookSkillDefinitions[r], served[i].skills[k])
        /\ \A r \in 1..Len(hookSkillDefinitions) :
              \E i \in 1..Len(sources) :
                 /\ served[i].kind = "ok"
                 /\ \E k \in 1..Len(served[i].skills) :
                        served[i].skills[k] = hookSkillDefinitions[r]
        /\ loading = FALSE
        /\ error = IF FailingFrom(1) = <<>> THEN NullError
                   ELSE ErrorOf("Some sources failed to load: "
                                   \o Join(FailingFrom(1), ", "))

\* C19 witness: of two sources the first failed and the second loaded a
\* skill; the skill is in skillDefinitions and error names the first source.
C19_Witness ==
    /\ HookDone
    /\ Len(sources) = 2
    /\ served[1].kind = "notOk"
    /\ served[2].kind = "ok"
    /\ Len(hookSkillDefinitions) > 0
    /\ hookSkillDefinitions = served[2].skills
    /\ error = ErrorOf("Some sources failed to load: usag.json")
    /\ loading = FALSE

----------------------------------------------------------------------------
(* normalizeTimestamps on the timestamps makeSkillFrames accumulates        *)

\* skills whose conversion takes the rotating path
NormDefs ==
    {d \in ConverterDefs :
        Len(d.twists) <= MaxDirectionTwistSlots /\ flipNumber(d) # 0}

\* the elapsed times the loop of makeSkillFrames hands to normalizeTimestamps
AccumulatedTimestamps ==
    {accumulatedFrames(d, incoming, NoProps).timestamps :
        d \in NormDefs, incoming \in IncomingTwists}

\* timestamps of a timeline without duration: every frame at the same time
ZeroDurationTimestamps ==
    {[i \in 1..n |-> t] : n \in 1..MaxZeroFrames, t \in {Zero, Half}}

NormInit ==
    /\ accumulated \in AccumulatedTimestamps \cup ZeroDurationTimestamps
    /\ normalized = <<>>
    /\ normPc = "ready"
    /\ ConvIdle /\ ScoreIdle /\ ValidationIdle /\ GenIdle /\ RuleIdle /\ ReqIdle /\ HookIdle /\ TotalIdle /\ RaceIdle /\ MoveIdle /\ PlayIdle

\* if (duration === 0) return timestamps.map(() => 0)
NormalizeZeroDuration ==
    /\ normPc = "ready"
    /\ Eq(Sub(accumulated[Len(accumulated)], accumulated[1]), Zero)
    /\ normalized' = normalizeTimestamps(accumulated)
    /\ normPc' = "done"
    /\ UNCHANGED accumulated
    /\ UNCHANGED <<convVars, scoreVars, validationVars, genVars, ruleVars, reqVars, hookVars, totalVars, raceVars, moveVars, playVars>>

\* return timestamps.map((t) => (t - start) / duration)
NormalizeScaled ==
    /\ normPc = "ready"
    /\ ~Eq(Sub(accumulated[Len(accumulated)], accumulated[1]), Zero)
    /\ normalized' = normalizeTimestamps(accumulated)
    /\ normPc' = "done"
    /\ UNCHANGED accumulated
    /\ UNCHANGED <<convVars, scoreVars, validationVars, genVars, ruleVars, reqVars, hookVars, totalVars, raceVars, moveVars, playVars>>

NormNext == NormalizeZeroDuration \/ NormalizeScaled

NormSpec == NormInit /\ [][NormNext]_vars

----------------------------------------------------------------------------
(* Properties of normalizeTimestamps, checked under NormSpec *)

Smallest(ts) == CHOOSE x \in Elements(ts) : \A y \in Elements(ts) : Le(x, y)

Largest(ts) == CHOOSE x \in Elements(ts) : \A y \in Elements(ts) : Ge(x, y)

\* C22: normalizeTimestamps maps every accumulated timestamp t to
\* (t - t_min) / (t_max - t_min), with t_min the smallest and t_max the
\* largest of them, so every output is a number in [0, 1]; when t_max = t_min
\* every output is 0 and none is NaN or Infinity.
C22_NormalizedByTimeSpan ==
    normPc = "done" =>
        LET tMin == Smallest(accumulated)
            tMax == Largest(accumulated)
        IN  /\ Len(normalized) = Len(accumulated)
            /\ \A i \in 1..Len(normalized) :
                   /\ ~IsNaN(normalized[i])
                   /\ Ge(normalized[i], Zero) /\ Le(normalized[i], One)
                   /\ IF Eq(tMax, tMin)
                      THEN normalized[i] = Zero
                      ELSE Eq(normalized[i],
                              Div(Sub(accumulated[i], tMin), Sub(tMax, tMin)))

\* C22 witness: timestamps that step backwards in between were normalized
\* by their time span.
C22_Witness ==
    /\ normPc = "done"
    /\ \E i \in 1..(Len(accumulated) - 1) : Lt(accumulated[i + 1], accumulated[i])
    /\ normalized[1] = Zero
    /\ normalized[Len(normalized)] = One

----------------------------------------------------------------------------
(* One call of routineDifficultyScore on an arbitrary routine *)

\* skills below, at and above three flips
TotalDefs ==
    ValidatorDefs
    \cup {SkillDef("Q", "Standing", "Standing", Rat(13, 4), <<Zero>>, "Tuck", FALSE)}

\* candidate values of CONSTANTS.FLIP_THRESHOLDS
FlipThresholdChoices ==
    [TRIPLE_THRESHOLD_MENS : 0..MaxTripleThreshold,
     TRIPLE_THRESHOLD_WOMENS : 0..MaxTripleThreshold]

TotalInit ==
    /\ scoredRoutine \in SeqsUpTo(TotalDefs, MaxScoredLength)
    /\ womens \in BOOLEAN
    /\ flipThresholds \in FlipThresholdChoices
    /\ routineScore = Zero
    /\ totalPc = "ready"
    /\ scorePool = <<>>
    /\ minDifficulty \in MinDifficultyChoices
    /\ difficultyCache = EmptyCache
    /\ scoreArg = 0
    /\ scoreResult = Zero
    /\ cacheAccess = "none"
    /\ firstCall = <<>>
    /\ conversions = 0
    /\ ConvIdle /\ ValidationIdle /\ GenIdle /\ RuleIdle /\ ReqIdle /\ HookIdle /\ NormIdle /\ RaceIdle /\ MoveIdle /\ PlayIdle

tripleCountOf(rt) ==
    LET IsTriple(sk) == Ge(sk.flips, IntRat(3)) IN CountWhere(rt, IsTriple)

TotalCall ==
    /\ routineScore' = routineDifficultyScore(scoredRoutine, minDifficulty,
                            tripleThresholdFor(womens, flipThresholds))
    /\ difficultyCache' = cacheAfterScoring(scoredRoutine, difficultyCache, minDifficulty)
    /\ totalPc' = "done"
    /\ UNCHANGED <<scoredRoutine, womens, flipThresholds>>
    /\ UNCHANGED <<scorePool, minDifficulty, scoreArg, scoreResult, cacheAccess,
                   firstCall, conversions>>
    /\ UNCHANGED <<convVars, validationVars, genVars, ruleVars, reqVars, hookVars, normVars, raceVars, moveVars, playVars>>

\* tripleCount > tripleThreshold: the score is raised
TotalRaised ==
    /\ totalPc = "ready"
    /\ tripleCountOf(scoredRoutine) > tripleThresholdFor(womens, flipThresholds)
    /\ TotalCall

\* tripleCount <= tripleThreshold: the rounded sum
TotalPlain ==
    /\ totalPc = "ready"
    /\ ~(tripleCountOf(scoredRoutine) > tripleThresholdFor(womens, flipThresholds))
    /\ TotalCall

TotalNext == TotalRaised \/ TotalPlain

TotalSpec == TotalInit /\ [][TotalNext]_vars

----------------------------------------------------------------------------
(* Properties of routineDifficultyScore, checked under TotalSpec *)

\* the indices of the skills with flips >= 3
TripleIndices == {i \in 1..Len(scoredRoutine) : Ge(scoredRoutine[i].flips, IntRat(3))}

\* the sum of calculateDifficultyScore over the skills
PlainSum == SumSeq([i \in 1..Len(scoredRoutine) |-> FreshScore(scoredRoutine[i])])

SelectedThreshold ==
    IF womens THEN flipThresholds.TRIPLE_THRESHOLD_WOMENS
    ELSE flipThresholds.TRIPLE_THRESHOLD_MENS

\* C24: routineDifficultyScore(routine, womens) is the sum of
\* calculateDifficultyScore over the skills plus 0.3 for each skill with
\* flips >= 3 beyond the threshold of the selected scoring system, rounded to
\* 2 decimals; with at most threshold such skills it is the rounded sum, and
\* the empty routine scores 0.
C24_RoutineScore ==
    totalPc = "done" =>
        /\ Cardinality(TripleIndices) > SelectedThreshold =>
              routineScore =
                  roundToTwo(Add(PlainSum,
                                 Mul(IntRat(Cardinality(TripleIndices) - SelectedThreshold),
                                     Rat(3, 10))))
        /\ Cardinality(TripleIndices) <= SelectedThreshold =>
              routineScore = roundToTwo(PlainSum)
        /\ scoredRoutine = <<>> => routineScore = Zero

\* C24 witness: a women's score was raised for the triples beyond a
\* threshold that lets some pass and differs from the men's.
C24_Witness ==
    /\ totalPc = "done"
    /\ womens
    /\ SelectedThreshold > 0
    /\ flipThresholds.TRIPLE_THRESHOLD_MENS # flipThresholds.TRIPLE_THRESHOLD_WOMENS
    /\ Cardinality(TripleIndices) > SelectedThreshold
    /\ Gt(routineScore, roundToTwo(PlainSum))

----------------------------------------------------------------------------
(* Properties of the zero-rotation path of makeSkillFrames, checked under   *)
(* ConvSpec                                                                 *)

\* flips plus the starting-position offset times the direction multiplier,
\* rounded
EffectiveFlips ==
    Round(Add(definition.flips,
              Mul(startingPositionRotations(definition.startingPosition),
                  IntRat(IF definition.isBackSkill THEN -1 ELSE 1))))

FirstTwist == IF Len(definition.twists) = 0 THEN Zero ELSE definition.twists[1]

----------------------------------------------------------------------------
(* hooks/useSkills.ts: useSkillDefinitions rendered again with other        *)
(* sources while the load of the render before is in flight.  The effect    *)
(* has no cleanup: the load it started runs on, and its continuation calls  *)
(* the same state setters.  served holds what the server answers for each   *)
(* name of SourceNames, the same for both loads.                            *)

RaceInit ==
    /\ sources \in SourceLists \ {<<>>}
    /\ nextSources \in SourceLists \ {sources}
    /\ served \in {answers \in SeqsUpTo(ServedChoices, MaxSources) :
                      Len(answers) = MaxSources}
    /\ settled = <<>>
    /\ hookSkillDefinitions = <<>>
    /\ selectedPositions = <<>>
    /\ loading = FALSE
    /\ error = NullError
    /\ hookPc = "mounted"
    /\ earlierSources = <<>>
    /\ earlierSettled = <<>>
    /\ earlierPc = "idle"
    /\ ConvIdle /\ ScoreIdle /\ ValidationIdle /\ GenIdle /\ RuleIdle /\ ReqIdle /\ NormIdle /\ TotalIdle /\ MoveIdle /\ PlayIdle

\* the render with other sources: sources.join(",") has changed, so the
\* effect is due again; the load in flight is not cancelled
SourcesChange ==
    /\ hookPc = "loading"
    /\ earlierPc = "idle"
    /\ earlierSources' = sources
    /\ earlierSettled' = settled
    /\ earlierPc' = "loading"
    /\ sources' = nextSources
    /\ settled' = <<>>
    /\ hookPc' = "mounted"
    /\ UNCHANGED <<nextSources, served, hookSkillDefinitions, selectedPositions, loading,
                   error>>
    /\ UNCHANGED <<convVars, scoreVars, validationVars, genVars, ruleVars, reqVars, normVars, totalVars, moveVars, playVars>>

\* a promise of the earlier load settles
EarlierSettle ==
    /\ earlierPc = "loading"
    /\ \E i \in 1..Len(earlierSources) :
          /\ earlierSettled[i] = "pending"
          /\ earlierSettled' =
                 [earlierSettled EXCEPT ![i] = IF served[i].kind = "ok"
                                               THEN "fulfilled" ELSE "rejected"]
    /\ UNCHANGED <<nextSources, earlierSources, earlierPc>>
    /\ UNCHANGED <<hookVars, convVars, scoreVars, validationVars, genVars, ruleVars, reqVars, normVars, totalVars, moveVars, playVars>>

\* the continuation of await Promise.allSettled(promises) of the earlier
\* load, the finally block included
EarlierLoadSettled ==
    /\ earlierPc = "loading"
    /\ \A i \in 1..Len(earlierSources) : earlierSettled[i] # "pending"
    /\ hookSkillDefinitions' = uniqueSkills(allSkills(served, earlierSettled, 1))
    /\ selectedPositions' =
           defaultPositions(uniqueSkills(allSkills(served, earlierSettled, 1)))
    /\ error' = errorAfterLoad(earlierSources, earlierSettled)
    /\ loading' = FALSE
    /\ earlierPc' = "done"
    /\ UNCHANGED <<nextSources, earlierSources, earlierSettled>>
    /\ UNCHANGED <<sources, served, settled, hookPc>>
    /\ UNCHANGED <<convVars, scoreVars, validationVars, genVars, ruleVars, reqVars, normVars, totalVars, moveVars, playVars>>

RaceNext == HookNext \/ SourcesChange \/ EarlierSettle \/ EarlierLoadSettled

RaceSpec == RaceInit /\ [][RaceNext]_vars

----------------------------------------------------------------------------
(* Properties of the hook rendered again, checked under RaceSpec *)

\* both loads have completed
BothLoadsDone == earlierPc = "done" /\ hookPc = "done"

\* uniqueSkills of the load for the most recent sources
LatestUniqueSkills ==
    IF Len(sources) = 0 THEN <<>> ELSE uniqueSkills(allSkills(served, settled, 1))

\* C28: when sources changes while an earlier load is in flight, then after
\* both loads have completed, in whichever order their fetches resolve,
\* skillDefinitions and selectedPositions hold the result of the load for
\* the most recent sources.
C28_LatestLoadWins ==
    BothLoadsDone =>
        /\ hookSkillDefinitions = LatestUniqueSkills
        /\ selectedPositions =
               (IF Len(sources) = 0 THEN <<>> ELSE defaultPositions(LatestUniqueSkills))

----------------------------------------------------------------------------
(* hooks/useSkills.ts: useRoutine.moveSkill *)

\* the value a destructuring of an empty array binds, as an array element
Undefined == [isUndefined |-> TRUE]

\* the index Array.prototype.splice starts at for the argument start
spliceStart(list, start) ==
    IF start < 0
    THEN (IF Len(list) + start < 0 THEN 0 ELSE Len(list) + start)
    ELSE (IF start > Len(list) THEN Len(list) ELSE start)

\* const [movedSkill] = newRoutine.splice(fromIndex, 1): the array left and
\* the skill removed
spliceOne(list, start) ==
    LET at == spliceStart(list, start)
    IN  IF at < Len(list)
        THEN [rest |-> SubSeq(list, 1, at) \o SubSeq(list, at + 2, Len(list)),
              movedSkill |-> list[at + 1]]
        ELSE [rest |-> list, movedSkill |-> Undefined]

\* newRoutine.splice(toIndex, 0, movedSkill)
spliceIn(list, start, movedSkill) ==
    LET at == spliceStart(list, start)
    IN  SubSeq(list, 1, at) \o <<movedSkill>> \o SubSeq(list, at + 1, Len(list))

\* the array moveSkill hands to setRoutine
moveSkill(routineArg, from, to) ==
    spliceIn(spliceOne(routineArg, from).rest, to, spliceOne(routineArg, from).movedSkill)

MoveIndices == (0 - (MaxMoveLength + 1))..(MaxMoveLength + 1)

MoveInit ==
    /\ stateRoutine \in SeqsUpTo(ValidatorDefs, MaxMoveLength)
    /\ fromIndex \in MoveIndices
    /\ toIndex \in MoveIndices
    /\ routineBefore = <<>>
    /\ movePc = "ready"
    /\ ConvIdle /\ ScoreIdle /\ ValidationIdle /\ GenIdle /\ RuleIdle /\ ReqIdle /\ HookIdle /\ NormIdle /\ TotalIdle /\ RaceIdle /\ PlayIdle

\* if (toIndex < 0 || toIndex >= routine.length || fromIndex === toIndex) return
MoveSkillReturn ==
    /\ movePc = "ready"
    /\ toIndex < 0 \/ toIndex >= Len(stateRoutine) \/ fromIndex = toIndex
    /\ routineBefore' = stateRoutine
    /\ movePc' = "done"
    /\ UNCHANGED <<stateRoutine, fromIndex, toIndex>>
    /\ UNCHANGED <<convVars, scoreVars, validationVars, genVars, ruleVars, reqVars, hookVars, normVars, totalVars, raceVars, playVars>>

\* the two splices and setRoutine(newRoutine)
MoveSkillSplice ==
    /\ movePc = "ready"
    /\ ~(toIndex < 0 \/ toIndex >= Len(stateRoutine) \/ fromIndex = toIndex)
    /\ routineBefore' = stateRoutine
    /\ stateRoutine' = moveSkill(stateRoutine, fromIndex, toIndex)
    /\ movePc' = "done"
    /\ UNCHANGED <<fromIndex, toIndex>>
    /\ UNCHANGED <<convVars, scoreVars, validationVars, genVars, ruleVars, reqVars, hookVars, normVars, totalVars, raceVars, playVars>>

MoveNext == MoveSkillReturn \/ MoveSkillSplice

MoveSpec == MoveInit /\ [][MoveNext]_vars

----------------------------------------------------------------------------
(* Properties of moveSkill, checked under MoveSpec *)

InRange(index) == index >= 0 /\ index < Len(routineBefore)

\* the list without its element at the 0-based index
WithoutIndex(list, index) ==
    SubSeq(list, 1, index) \o SubSeq(list, index + 2, Len(list))

Occurrences(list, x) == Cardinality({i \in 1..Len(list) : list[i] = x})

\* C29: moveSkill(fromIndex, toIndex) never changes the length of the
\* routine or its multiset of skills, for any pair of integer indices; with
\* both indices in range and different the skill at fromIndex ends at
\* toIndex and the other skills keep their relative order; with toIndex out
\* of range, fromIndex out of range or fromIndex = toIndex the routine is
\* left unchanged.
C29_MoveSkillPermutes ==
    movePc = "done" =>
        /\ Len(stateRoutine) = Len(routineBefore)
        /\ \A i \in 1..Len(stateRoutine) :
               Occurrences(stateRoutine, stateRoutine[i])
                   = Occurrences(routineBefore, stateRoutine[i])
        /\ IF InRange(fromIndex) /\ InRange(toIndex) /\ fromIndex # toIndex
           THEN /\ stateRoutine[toIndex + 1] = routineBefore[fromIndex + 1]
                /\ WithoutIndex(stateRoutine, toIndex)
                       = WithoutIndex(routineBefore, fromIndex)
           ELSE stateRoutine = routineBefore

----------------------------------------------------------------------------
(* useSimulator.playRoutine followed by the playback of AthleteController:  *)
(* useFrame sees the skills one after the other, frames being closer than   *)
(* one skill cycle, and the restart key may change at any frame             *)

\* definitions on both conversion paths, with and without twist, with twist
\* slots the conversion reads and slots it does not read
PlayDefs ==
    {SkillDef("Tuck Jump", "Standing", "Standing", Zero, <<Zero>>, "Tuck", FALSE),
     SkillDef("Half Twist", "Standing", "Standing", Zero, <<Half>>, Straight, FALSE),
     SkillDef("Seat Half", "Standing", "Seated", Zero, <<Zero, Half>>, Straight, FALSE),
     SkillDef("Barani", "Standing", "Standing", One, <<Zero, Half>>, Straight, FALSE),
     SkillDef("Back Flip", "Standing", "Standing", One, <<Zero, Zero>>, "Tuck", TRUE),
     SkillDef("Late Half", "Standing", "Standing", One, <<Zero, Zero, Half>>, "Tuck", FALSE)}

\* cumulativeTwist when routine.map reaches the skill at index i (1-based)
cumulativeTwistAt(routineArg, i) ==
    SumSeq([j \in 1..(i - 1) |-> totalTwists(routineArg[j])])

PlayInit ==
    /\ playedRoutine \in SeqsUpTo(PlayDefs, MaxPlayLength)
    /\ incomingTwists = <<>>
    /\ skills = <<>>
    /\ cumulativeTwistRef = Zero
    /\ previousSkillIndexRef = 0
    /\ transitions = 0
    /\ playPc = "ready"
    /\ ConvIdle /\ ScoreIdle /\ ValidationIdle /\ GenIdle /\ RuleIdle /\ ReqIdle /\ HookIdle /\ NormIdle /\ TotalIdle /\ RaceIdle /\ MoveIdle

\* playRoutine([]): the simulator is not opened
PlayRoutineEmpty ==
    /\ playPc = "ready"
    /\ Len(playedRoutine) = 0
    /\ playPc' = "closed"
    /\ UNCHANGED <<playedRoutine, incomingTwists, skills, cumulativeTwistRef,
                   previousSkillIndexRef, transitions>>
    /\ UNCHANGED <<convVars, scoreVars, validationVars, genVars, ruleVars, reqVars, hookVars, normVars, totalVars, raceVars, moveVars>>

\* playRoutine(routine): routine.map, setSkills, setSimulatorOpen(true)
PlayRoutine ==
    /\ playPc = "ready"
    /\ Len(playedRoutine) > 0
    /\ incomingTwists' = [i \in 1..Len(playedRoutine) |->
                              cumulativeTwistAt(playedRoutine, i)]
    /\ skills' = [i \in 1..Len(playedRoutine) |->
                      makeSkillFrames(playedRoutine[i],
                                      cumulativeTwistAt(playedRoutine, i), NoProps)]
    /\ playPc' = "playing"
    /\ UNCHANGED <<playedRoutine, cumulativeTwistRef, previousSkillIndexRef,
                   transitions>>
    /\ UNCHANGED <<convVars, scoreVars, validationVars, genVars, ruleVars, reqVars, hookVars, normVars, totalVars, raceVars, moveVars>>

\* a frame of useFrame whose currentSkillIndex is not previousSkillIndexRef
UseFrameTransition ==
    /\ playPc = "playing"
    /\ transitions < MaxTransitions
    /\ LET currentSkillIndex == (previousSkillIndexRef + 1) % Len(skills)
           previousSkill == skills[previousSkillIndexRef + 1]
       IN  /\ currentSkillIndex # previousSkillIndexRef
           /\ cumulativeTwistRef' =
                  IF Len(previousSkill.positions) > 0
                  THEN Add(cumulativeTwistRef, LastOf(previousSkill.positions).twist)
                  ELSE cumulativeTwistRef
           /\ previousSkillIndexRef' = currentSkillIndex
    /\ transitions' = transitions + 1
    /\ UNCHANGED <<playedRoutine, incomingTwists, skills, playPc>>
    /\ UNCHANGED <<convVars, scoreVars, validationVars, genVars, ruleVars, reqVars, hookVars, normVars, totalVars, raceVars, moveVars>>

\* a frame of useFrame with restartKey !== lastRestartKeyRef.current
UseFrameRestart ==
    /\ playPc = "playing"
    /\ cumulativeTwistRef' = Zero
    /\ previousSkillIndexRef' = 0
    /\ transitions' = 0
    /\ UNCHANGED <<playedRoutine, incomingTwists, skills, playPc>>
    /\ UNCHANGED <<convVars, scoreVars, validationVars, genVars, ruleVars, reqVars, hookVars, normVars, totalVars, raceVars, moveVars>>

PlayNext == PlayRoutineEmpty \/ PlayRoutine \/ UseFrameTransition \/ UseFrameRestart

PlaySpec == PlayInit /\ [][PlayNext]_vars

----------------------------------------------------------------------------
(* Properties of playRoutine and the playback, checked under PlaySpec *)

\* sum of the twists of the last keyframes of the animations before index i
\* (1-based)
EndTwistsBefore(i) ==
    SumSeq([j \in 1..(i - 1) |-> LastOf(skills[j].positions).twist])

\* C30: the incoming twist playRoutine passes to makeSkillFrames for the
\* skill at index i equals the sum of the final-keyframe twists of the
\* animations of skills 0..i-1, which is the value of cumulativeTwistRef when
\* the playback enters skill i for the first time after a restart.
C30_IncomingTwistIsPlayedTwist ==
    playPc = "playing" =>
        /\ \A i \in 1..Len(skills) : incomingTwists[i] = EndTwistsBefore(i)
        /\ transitions < Len(skills) =>
               /\ previousSkillIndexRef = transitions
               /\ cumulativeTwistRef = EndTwistsBefore(transitions + 1)

====
